---------------------------- MODULE Spec2Model ----------------------------
(***************************************************************************)
(* Clarification loop of MetaIntent: MetaLoopEngine (startSession,         *)
(* continueSession), AmbiguityDetector, SubAgentOrchestrator,              *)
(* IntentSnapshotManager, FallbackHandler, CacheManager and the lambdas    *)
(* that call the reasoning backend.                                        *)
(*                                                                         *)
(* Strings that the code inspects (toLowerCase, includes, split, regular   *)
(* expressions) are sequences of one-character strings.  Confidences are   *)
(* kept in tenths (0.4 is 4), ambiguity scores are integers.               *)
(***************************************************************************)
EXTENDS Integers, Sequences, FiniteSets, TLC

\* ------------------------------------------------------------------ bounds
MaxCalls == 3        \* calls and container restarts explored in one behaviour
MaxFaults == 2       \* store failures, backend failures and malformed replies in one behaviour
MaxOrchCalls == 4    \* calls explored when the orchestrator is called directly
MaxClock == 3        \* half hours that pass in one behaviour
MaxFbCalls == 3      \* lambda / cascade invocations explored in one behaviour

\* --------------------------------------------------------- string helpers
Min(a, b) == IF a < b THEN a ELSE b
Max(a, b) == IF a > b THEN a ELSE b

UpperChars == <<"A","B","C","D","E","F","G","H","I","J","K","L","M",
                "N","O","P","Q","R","S","T","U","V","W","X","Y","Z">>
LowerChars == <<"a","b","c","d","e","f","g","h","i","j","k","l","m",
                "n","o","p","q","r","s","t","u","v","w","x","y","z">>
Digits == {"0","1","2","3","4","5","6","7","8","9"}

IsUpper(c) == \E i \in 1..26 : UpperChars[i] = c
IsLower(c) == \E i \in 1..26 : LowerChars[i] = c

\* String.prototype.toLowerCase
ToLowerChar(c) ==
    IF IsUpper(c) THEN LowerChars[CHOOSE i \in 1..26 : UpperChars[i] = c] ELSE c
ToLower(s) == [i \in 1..Len(s) |-> ToLowerChar(s[i])]

\* String.prototype.trim (only blanks occur as white space)
RECURSIVE TrimLeft(_)
TrimLeft(s) == IF s # <<>> /\ Head(s) = " " THEN TrimLeft(Tail(s)) ELSE s
RECURSIVE TrimRight(_)
TrimRight(s) ==
    IF s # <<>> /\ s[Len(s)] = " " THEN TrimRight(SubSeq(s, 1, Len(s) - 1)) ELSE s
Trim(s) == TrimRight(TrimLeft(s))

\* String.prototype.includes
Includes(s, p) ==
    \E i \in 0..(Len(s) - Len(p)) : SubSeq(s, i + 1, i + Len(p)) = p

\* String.prototype.substring(0, n)
Substring0(s, n) == SubSeq(s, 1, Min(n, Len(s)))

\* String.prototype.split(sep) for a one-character separator: the pieces,
\* empty pieces included
RECURSIVE SplitAcc(_, _, _)
SplitAcc(s, sep, cur) ==
    IF s = <<>> THEN <<cur>>
    ELSE IF Head(s) = sep THEN <<cur>> \o SplitAcc(Tail(s), sep, <<>>)
    ELSE SplitAcc(Tail(s), sep, Append(cur, Head(s)))
Split(s, sep) == SplitAcc(s, sep, <<>>)

\* String.prototype.split(/[.!?]+/): a run of terminators is one separator
SentenceEnd == {".", "!", "?"}
RECURSIVE SplitSentAcc(_, _, _)
SplitSentAcc(s, cur, inRun) ==
    IF s = <<>> THEN <<cur>>
    ELSE IF Head(s) \in SentenceEnd
         THEN IF inRun THEN SplitSentAcc(Tail(s), cur, TRUE)
              ELSE <<cur>> \o SplitSentAcc(Tail(s), <<>>, TRUE)
    ELSE SplitSentAcc(Tail(s), Append(cur, Head(s)), FALSE)
SplitSentences(s) == SplitSentAcc(s, <<>>, FALSE)

\* the number of elements of s for which P holds
CountIf(s, P(_)) == Len(SelectSeq(s, P))

RECURSIVE SumSeq(_)
SumSeq(s) == IF s = <<>> THEN 0 ELSE Head(s) + SumSeq(Tail(s))

Range(s) == {s[i] : i \in DOMAIN s}

\* a sequence given as a function, with its elements evaluated once
Eval(s) == s \o <<>>

\* The element of a one-element set.  The({ e : x \in {v} }) is e with x
\* bound to the value of v, which is worked out once however often e uses x.
The(S) == CHOOSE v \in S : TRUE

\* ------------------------------------------------------------------ texts
\* The texts that occur in a state are kept by name; CharsOf gives the
\* characters of a text and AtomOf the text made of given characters.
InVague == "build something"
InSkip == "Skip"
InNone == "none"
InKnow == "I know React well"
InInfo == "A fitness app. Track 500 runs!"
InfoFinding1 == "A fitness app"
InfoFinding2 == "Track 500 runs"
UncertaintyFinding == "User indicated uncertainty - proceeding with available information"
DefaultGoal == "User goal clarified"
DefaultScope == "Scope defined"
BackendGoal == "Fitness tracking app"
BackendScope == "Mobile only"
EmptyText == ""
Texts ==
    { InVague,
      InSkip,
      InNone,
      InKnow,
      InInfo,
      InfoFinding1,
      InfoFinding2,
      UncertaintyFinding,
      DefaultGoal,
      DefaultScope,
      BackendGoal,
      BackendScope,
      EmptyText }
CharsOf(t) ==
    CASE t = InVague ->
           <<"b", "u", "i", "l", "d", " ", "s", "o", "m", "e", "t", "h", "i", "n", "g">>
      [] t = InSkip ->
           <<"S", "k", "i", "p">>
      [] t = InNone ->
           <<"n", "o", "n", "e">>
      [] t = InKnow ->
           <<"I", " ", "k", "n", "o", "w", " ", "R", "e", "a", "c", "t", " ", "w", "e", "l", "l">>
      [] t = InInfo ->
           <<"A", " ", "f", "i", "t", "n", "e", "s", "s", " ", "a", "p", "p", ".", " ", "T", "r", "a", "c", "k", " ", "5", "0", "0", " ", "r", "u", "n", "s", "!">>
      [] t = InfoFinding1 ->
           <<"A", " ", "f", "i", "t", "n", "e", "s", "s", " ", "a", "p", "p">>
      [] t = InfoFinding2 ->
           <<"T", "r", "a", "c", "k", " ", "5", "0", "0", " ", "r", "u", "n", "s">>
      [] t = UncertaintyFinding ->
           <<"U", "s", "e", "r", " ", "i", "n", "d", "i", "c", "a", "t", "e", "d", " ", "u", "n", "c", "e", "r", "t", "a", "i", "n", "t", "y", " ", "-", " ", "p", "r", "o", "c", "e", "e", "d", "i", "n", "g", " ", "w", "i", "t", "h", " ", "a", "v", "a", "i", "l", "a", "b", "l", "e", " ", "i", "n", "f", "o", "r", "m", "a", "t", "i", "o", "n">>
      [] t = DefaultGoal ->
           <<"U", "s", "e", "r", " ", "g", "o", "a", "l", " ", "c", "l", "a", "r", "i", "f", "i", "e", "d">>
      [] t = DefaultScope ->
           <<"S", "c", "o", "p", "e", " ", "d", "e", "f", "i", "n", "e", "d">>
      [] t = BackendGoal ->
           <<"F", "i", "t", "n", "e", "s", "s", " ", "t", "r", "a", "c", "k", "i", "n", "g", " ", "a", "p", "p">>
      [] t = BackendScope ->
           <<"M", "o", "b", "i", "l", "e", " ", "o", "n", "l", "y">>
      [] t = EmptyText ->
           <<>>
AtomOf(chars) == CHOOSE t \in Texts : CharsOf(t) = chars

\* the phrase lists of the code, as characters
skipPhrases ==
    << <<"s", "k", "i", "p">>,
       <<"i", " ", "d", "o", "n", "'", "t", " ", "k", "n", "o", "w">>,
       <<"d", "o", "n", "'", "t", " ", "k", "n", "o", "w">>,
       <<"n", "o", "t", " ", "s", "u", "r", "e">>,
       <<"n", "o", " ", "i", "d", "e", "a">>,
       <<"i", "d", "k">>,
       <<"d", "u", "n", "n", "o">> >>
noInfoResponses ==
    << <<"i", " ", "d", "o", "n", "'", "t", " ", "k", "n", "o", "w">>,
       <<"d", "o", "n", "'", "t", " ", "k", "n", "o", "w">>,
       <<"n", "o", "t", " ", "s", "u", "r", "e">>,
       <<"n", "o", " ", "i", "d", "e", "a">>,
       <<"i", "d", "k">>,
       <<"d", "u", "n", "n", "o">>,
       <<"n", "o">>,
       <<"n", "o", "t", "h", "i", "n", "g">>,
       <<"n", "o", "n", "e">>,
       <<"s", "k", "i", "p">> >>
hedgingWords ==
    << <<"m", "a", "y", "b", "e">>,
       <<"p", "e", "r", "h", "a", "p", "s">>,
       <<"k", "i", "n", "d", " ", "o", "f">>,
       <<"s", "o", "r", "t", " ", "o", "f">>,
       <<"i", " ", "t", "h", "i", "n", "k">>,
       <<"n", "o", "t", " ", "s", "u", "r", "e">>,
       <<"p", "o", "s", "s", "i", "b", "l", "y">>,
       <<"m", "i", "g", "h", "t">>,
       <<"c", "o", "u", "l", "d">> >>
vagueWords ==
    << <<"s", "t", "u", "f", "f">>,
       <<"t", "h", "i", "n", "g", "s">>,
       <<"s", "o", "m", "e", "t", "h", "i", "n", "g">>,
       <<"w", "h", "a", "t", "e", "v", "e", "r">>,
       <<"a", "n", "y", "t", "h", "i", "n", "g">>,
       <<"s", "o", "m", "e", "h", "o", "w">> >>
uncertainPhrases ==
    << <<"d", "o", "n", "'", "t", " ", "k", "n", "o", "w">>,
       <<"n", "o", "t", " ", "s", "u", "r", "e">>,
       <<"u", "n", "c", "l", "e", "a", "r">>,
       <<"c", "o", "n", "f", "u", "s", "e", "d">>,
       <<"u", "n", "s", "u", "r", "e">> >>
genericActions ==
    << <<"b", "u", "i", "l", "d">>,
       <<"m", "a", "k", "e">>,
       <<"c", "r", "e", "a", "t", "e">>,
       <<"d", "o">>,
       <<"h", "e", "l", "p">>,
       <<"w", "o", "r", "k">> >>
W_for == <<"f", "o", "r">>
W_with == <<"w", "i", "t", "h">>
W_frustrated == <<"f", "r", "u", "s", "t", "r", "a", "t", "e", "d">>
W_annoying == <<"a", "n", "n", "o", "y", "i", "n", "g">>
W_excited == <<"e", "x", "c", "i", "t", "e", "d">>
W_amazing == <<"a", "m", "a", "z", "i", "n", "g">>
W_confused == <<"c", "o", "n", "f", "u", "s", "e", "d">>
W_not_sure == <<"n", "o", "t", " ", "s", "u", "r", "e">>
W_build == <<"b", "u", "i", "l", "d">>
W_create == <<"c", "r", "e", "a", "t", "e">>
W_make == <<"m", "a", "k", "e">>
W_help == <<"h", "e", "l", "p">>
W_assist == <<"a", "s", "s", "i", "s", "t">>
W_app == <<"a", "p", "p">>
W_website == <<"w", "e", "b", "s", "i", "t", "e">>
W_software == <<"s", "o", "f", "t", "w", "a", "r", "e">>
W_stuck == <<"s", "t", "u", "c", "k">>
W_want == <<"w", "a", "n", "t">>
W_maybe == <<"m", "a", "y", "b", "e">>

\* first requests and answers to clarification questions
StartInputs == {InVague}
Responses == {InSkip, InKnow, InInfo}
UserInputs == StartInputs \cup Responses \cup {InNone}

\* an optional value: <<>> is undefined, <<v>> is v
None == <<>>
Some(v) == <<v>>
IsSome(o) == o # <<>>
Val(o) == o[1]

\* ------------------------------------------------------ AmbiguityDetector
\* calculateSimpleAmbiguityScore: the additive heuristic
HasNumbers(input) == \E i \in 1..Len(input) : input[i] \in Digits
\* /[A-Z][a-z]+/
HasCapitalizedWords(input) ==
    \E i \in 1..(Len(input) - 1) : IsUpper(input[i]) /\ IsLower(input[i + 1])

CountIncluded(lower, phrases) == CountIf(phrases, LAMBDA p : Includes(lower, p))

calculateSimpleAmbiguityScore(input) ==
    LET lower == ToLower(input)
        words == Split(input, " ")
        hasNumbers == HasNumbers(input)
        hasGenericAction == \E i \in DOMAIN genericActions : Includes(lower, genericActions[i])
        hasSpecificDetails == \/ Len(words) > 8
                              \/ hasNumbers
                              \/ Includes(lower, W_for)
                              \/ Includes(lower, W_with)
        score == 20 * CountIncluded(lower, hedgingWords)
               + 25 * CountIncluded(lower, vagueWords)
               + 30 * CountIncluded(lower, uncertainPhrases)
               + (IF \E i \in 1..Len(input) : input[i] = "?" THEN 15 ELSE 0)
               + (IF Len(words) < 5 THEN 30 ELSE 0)
               + (IF ~hasNumbers /\ ~HasCapitalizedWords(input) /\ Len(words) < 10
                  THEN 20 ELSE 0)
               + (IF hasGenericAction /\ ~hasSpecificDetails THEN 25 ELSE 0)
    IN  Min(100, score)

\* detectSimpleSignals; each list is optional because a backend reply may
\* leave it out
signalHedging == SubSeq(hedgingWords, 1, 6)
signalVague == SubSeq(vagueWords, 1, 4)
detectSimpleSignals(input) ==
    LET lower == ToLower(input) IN
    [ hedgingLanguage |-> Some(SelectSeq(signalHedging, LAMBDA p : Includes(lower, p))),
      vagueTerms |-> Some(SelectSeq(signalVague, LAMBDA p : Includes(lower, p))),
      emotionalMarkers |-> Some(
          (IF Includes(lower, W_frustrated) \/ Includes(lower, W_annoying)
           THEN <<"frustration">> ELSE <<>>)
       \o (IF Includes(lower, W_excited) \/ Includes(lower, W_amazing)
           THEN <<"excitement">> ELSE <<>>)
       \o (IF Includes(lower, W_confused) \/ Includes(lower, W_not_sure)
           THEN <<"confusion">> ELSE <<>>)) ]

createEmptySignals ==
    [ hedgingLanguage |-> Some(<<>>), vagueTerms |-> Some(<<>>),
      emotionalMarkers |-> Some(<<>>) ]

createDefaultAnalysis(input) ==
    LET score == calculateSimpleAmbiguityScore(input) IN
    [ score |-> score,
      signals |-> detectSimpleSignals(input),
      recommendedStrategy |-> IF score > 70 THEN "multi" ELSE "scope",
      reasoning |-> "Fallback analysis based on simple heuristics" ]

\* What the reasoning backend can answer to the analysis prompt.
\*   error      the call rejects
\*   timeout    the 5 s timer wins the race
\*   notext     a reply without a text block
\*   unparsable text without a {...} match, or one JSON.parse rejects
\*   json       a JSON object; score None stands for a missing score,
\*              signals "absent" for a missing signals
\*              object, "partial" for one without emotionalMarkers
ReplySignals(tag) ==
    CASE tag = "absent" -> createEmptySignals
      [] tag = "partial" -> [ hedgingLanguage |-> Some(<<>>), vagueTerms |-> Some(<<>>),
                              emotionalMarkers |-> None ]
      [] OTHER -> [ hedgingLanguage |-> Some(<<W_maybe>>), vagueTerms |-> Some(<<>>),
                    emotionalMarkers |-> Some(<<"confusion">>) ]

JsonReply(score, strategy, sig) ==
    [ kind |-> "json", score |-> Some(score), strategy |-> strategy, signals |-> sig ]
PlainReply(kind) == [ kind |-> kind, score |-> None, strategy |-> "", signals |-> "absent" ]

\* The replies the engine is run against: around the threshold of startSession
\* (score > 60) and around the threshold of continueSession (score < 40).
\* A reply without emotionalMarkers is malformed.
StartReplies ==
    { JsonReply(60, "scope", "full"), JsonReply(61, "emotions", "full"),
      JsonReply(61, "", "partial") }
ContinueReplies ==
    { JsonReply(39, "scope", "full"), JsonReply(40, "multi", "absent"),
      JsonReply(61, "", "partial") }
Malformed(reply) == reply.kind = "json" /\ reply.signals = "partial"

\* The heuristic analysis of every input, computed once.
DefaultAnalyses ==
    { [ input |-> u, analysis |-> createDefaultAnalysis(CharsOf(u)) ] :
        u \in UserInputs \cup {EmptyText} }
DefaultAnalysisOf(u) == (CHOOSE f \in DefaultAnalyses : f.input = u).analysis

\* variant: the score is only kept from falling below 0
clampScoreBelowOnly(score) == Max(0, score)

\* Math.min(100, Math.max(0, score))
clampScore(score) == Min(100, Max(0, score))

\* parsed.score || 50: a missing score and the score 0 are both falsy
scoreOr50(score) == IF IsSome(score) /\ Val(score) # 0 THEN Val(score) ELSE 50

\* parseAnalysisResponse(content.text)
parseAnalysisResponse(reply) ==
    IF reply.kind = "json"
    THEN [ score |-> clampScore(scoreOr50(reply.score)),
           signals |-> ReplySignals(reply.signals),
           recommendedStrategy |-> IF reply.strategy # "" THEN reply.strategy ELSE "scope",
           reasoning |-> "backend" ]
    ELSE DefaultAnalysisOf(EmptyText)

\* variant: a failed call ends where an unparsable reply ends
analyzeFailureAsUnparsable(userInput, reply) ==
    IF reply.kind = "json" THEN parseAnalysisResponse(reply)
    ELSE parseAnalysisResponse(PlainReply("unparsable"))

\* analyze(userInput): backend failures end in the heuristic analysis
analyze(userInput, reply) ==
    IF reply.kind \in {"json", "unparsable"}
    THEN parseAnalysisResponse(reply)
    ELSE DefaultAnalysisOf(userInput)

\* -------------------------------------------------- JavaScript numbers
\* A non-negative double is kept as the hexadecimal digits, most
\* significant first and without leading zeros, of its value in units of
\* 2^-60: every double from 2^-7 up to 2^7 is a whole number of such units.
\* Sums and quotients are rounded to 53 significant bits, ties to even.
Zeros(n) == [i \in 1..n |-> 0]

RECURSIVE Strip(_)
Strip(digits) ==
    IF digits = <<>> \/ Head(digits) # 0 THEN digits ELSE Strip(Tail(digits))

RECURSIVE AddFrom(_, _, _, _, _)
AddFrom(pa, pb, i, carry, sum) ==
    IF i = 0 THEN sum
    ELSE The({ AddFrom(pa, pb, i - 1, t \div 16, <<t % 16>> \o sum)
               : t \in {pa[i] + pb[i] + carry} })

AddDigits(a, b) ==
    LET n == Max(Len(a), Len(b)) + 1
    IN  Strip(AddFrom(Zeros(n - Len(a)) \o a, Zeros(n - Len(b)) \o b, n, 0, <<>>))

RECURSIVE DivDigits(_, _, _, _)
DivDigits(digits, n, rem, quot) ==
    IF digits = <<>> THEN [quot |-> Strip(quot), rem |-> rem]
    ELSE The({ DivDigits(Tail(digits), n, cur % n, Append(quot, cur \div n))
               : cur \in {16 * rem + Head(digits)} })

\* bit j, counted from the least significant one
BitOf(digits, j) == (digits[Len(digits) - j \div 4] \div 2^(j % 4)) % 2

BitLength(digits) ==
    IF digits = <<>> THEN 0
    ELSE 4 * (Len(digits) - 1)
         + (CASE digits[1] >= 8 -> 4 [] digits[1] >= 4 -> 3 [] digits[1] >= 2 -> 2 [] OTHER -> 1)

\* digits, plus a fraction of a unit when inexact, as the nearest number of
\* 53 significant bits
RoundToEven(digits, inexact) ==
    LET k == Len(digits)
        d == BitLength(digits) - 53
    IN  IF d <= 0 THEN digits
        ELSE LET up == /\ BitOf(digits, d - 1) = 1
                       /\ \/ inexact
                          \/ BitOf(digits, d) = 1
                          \/ \E j \in 0..(d - 2) : BitOf(digits, j) = 1
                 truncated == [i \in 1..k |->
                                 IF k - i < d \div 4 THEN 0
                                 ELSE IF k - i = d \div 4
                                      THEN digits[i] - (digits[i] % 2^(d % 4))
                                      ELSE digits[i]]
             IN  IF up
                 THEN AddDigits(truncated, <<2^(d % 4)>> \o Zeros(d \div 4))
                 ELSE truncated

\* 0/0
NaN == <<-1>>
Zero64 == <<>>
\* 0.4 = 0x1.999999999999ap-2
Double04 == <<6, 6, 6, 6, 6, 6, 6, 6, 6, 6, 6, 6, 6, 8, 0>>
\* 0.7 = 0x1.6666666666666p-1
Double07 == <<11, 3, 3, 3, 3, 3, 3, 3, 3, 3, 3, 3, 3, 0, 0>>
\* 0.8 = 0x1.999999999999ap-1
Double08 == <<12, 12, 12, 12, 12, 12, 12, 12, 12, 12, 12, 12, 13, 0, 0>>
Double10 == <<1>> \o Zeros(15)

\* a + b
Add64(a, b) == The({ RoundToEven(sum, FALSE) : sum \in {AddDigits(a, b)} })

\* a / n for a whole number n
Divide64(a, n) ==
    IF n = 0 THEN NaN
    ELSE The({ IF r = <<>> THEN Zero64 ELSE SubSeq(r, 1, Len(r) - 2)
               : r \in { RoundToEven(d.quot, d.rem # 0)
                         : d \in {DivDigits(a \o Zeros(2), n, 0, <<>>)} } })

RECURSIVE LexGreater(_, _)
LexGreater(a, b) ==
    /\ a # <<>>
    /\ \/ Head(a) > Head(b)
       \/ Head(a) = Head(b) /\ LexGreater(Tail(a), Tail(b))

\* a > b; false when either is NaN
Greater64(a, b) ==
    /\ a # NaN /\ b # NaN
    /\ \/ Len(a) > Len(b)
       \/ Len(a) = Len(b) /\ LexGreater(a, b)

\* the number an agent's confidence is after Math.min(1.0, confidence + 0.4)
\* has been applied tenths / 4 times to 0
RECURSIVE Confidence64(_)
Confidence64(tenths) ==
    IF tenths = 0 THEN Zero64
    ELSE The({ IF Greater64(sum, Double10) THEN Double10 ELSE sum
               : sum \in { Add64(previous, Double04)
                           : previous \in {Confidence64(Max(0, tenths - 4))} } })

RECURSIVE Sum64(_, _)
Sum64(sum, confidences) ==
    IF confidences = <<>> THEN sum
    ELSE The({ Sum64(next, Tail(confidences))
               : next \in { Add64(sum, c) : c \in {Confidence64(Head(confidences))} } })

\* --------------------------------------------------- SubAgentOrchestrator
AgentTypes == {"scope", "constraints", "outcomes", "emotions"}
Undefined == "<undefined>"
Falsy(str) == str \in {Undefined, ""}

\* variant: a score of 70 already gives the full batch
determineAgentTypesInclusive(strategy, ambiguityScore) ==
    IF strategy = "multi" \/ ambiguityScore >= 70
    THEN <<"scope", "constraints", "outcomes">>
    ELSE CASE strategy = "scope" -> <<"scope">>
           [] strategy = "constraints" -> <<"constraints">>
           [] strategy = "outcomes" -> <<"outcomes">>
           [] strategy = "emotions" -> <<"emotions", "outcomes">>
           [] OTHER -> <<"scope", "outcomes">>

determineAgentTypes(strategy, ambiguityScore) ==
    IF strategy = "multi" \/ ambiguityScore > 70
    THEN <<"scope", "constraints", "outcomes">>
    ELSE CASE strategy = "scope" -> <<"scope">>
           [] strategy = "constraints" -> <<"constraints">>
           [] strategy = "outcomes" -> <<"outcomes">>
           [] strategy = "emotions" -> <<"emotions", "outcomes">>
           [] OTHER -> <<"scope", "outcomes">>

maxQuestions == 2

createAgent(type) ==
    [ type |-> type, status |-> "active", findings |-> <<>>, confidence |-> 0,
      conversationHistory |-> <<>>, currentQuestion |-> Undefined,
      questionsAsked |-> 0, maxQuestions |-> maxQuestions ]

getFallbackQuestion(type, questionNumber) ==
    LET questions ==
          [ scope |-> << "What is the scale or size of what you want to accomplish?",
                         "Who else is involved or affected by this?",
                         "What specific areas should this focus on, and what should it avoid?" >>,
            constraints |-> << "What limitations or restrictions do you need to work within?",
                               "What resources (time, budget, tools) do you have available?",
                               "Are there any requirements or rules that must be followed?" >>,
            outcomes |-> << "What would success look like for this?",
                            "How will you know when this is complete or working well?",
                            "What specific results are you hoping to achieve?" >>,
            emotions |-> << "What motivated you to pursue this?",
                            "What concerns or worries do you have about this?",
                            "How do you feel about the current situation?" >> ]
    IN  questions[type][(questionNumber % Len(questions[type])) + 1]

\* variant: the response is compared as it was typed
isNoInfoCaseSensitive(userResponse) ==
    LET lower == Trim(userResponse) IN
    \E i \in DOMAIN noInfoResponses :
        lower = noInfoResponses[i] \/ Includes(lower, noInfoResponses[i])

isNoInfo(userResponse) ==
    LET lower == Trim(ToLower(userResponse)) IN
    \E i \in DOMAIN noInfoResponses :
        lower = noInfoResponses[i] \/ Includes(lower, noInfoResponses[i])

extractFindings(response) ==
    LET sentences == SelectSeq(SplitSentences(response), LAMBDA s : Len(Trim(s)) > 10)
        findings == [ i \in 1..Min(3, Len(sentences)) |-> Trim(sentences[i]) ]
    IN  IF Len(findings) = 0 THEN <<Substring0(response, 100)>> ELSE findings

\* What processResponse and continueSession compute from the text of a
\* response, computed once for every input.
ResponseFacts ==
    { [ input |-> u,
        noInfo |-> isNoInfo(CharsOf(u)),
        findings |-> LET f == extractFindings(CharsOf(u)) IN
                     Eval([ i \in 1..Len(f) |-> AtomOf(f[i]) ]),
        lower |-> ToLower(CharsOf(u)) ] : u \in UserInputs }
FactsOf(u) == CHOOSE f \in ResponseFacts : f.input = u

getSmartQuestion(agent, userContext) ==
    LET lower == FactsOf(userContext).lower
        hasAnswered == Len(agent.conversationHistory) > 0
    IN
    CASE agent.type = "scope" ->
           IF ~hasAnswered
           THEN IF Includes(lower, W_build) \/ Includes(lower, W_create) \/ Includes(lower, W_make)
                THEN "What specific thing do you want to build or create?"
                ELSE IF Includes(lower, W_help) \/ Includes(lower, W_assist)
                THEN "Who or what do you want to help, and in what way?"
                ELSE "Can you describe what you want to accomplish in more detail?"
           ELSE IF agent.questionsAsked = 1
           THEN IF Includes(lower, W_app) \/ Includes(lower, W_website) \/ Includes(lower, W_software)
                THEN "What are the main features or pages this should have?"
                ELSE "What should be included in this, and what should be left out?"
           ELSE "Who is this for, and what scale are you thinking (personal, team, public)?"
      [] agent.type = "constraints" ->
           IF ~hasAnswered
           THEN "What limitations do you have (time, budget, technical skills, etc.)?"
           ELSE IF agent.questionsAsked = 1
           THEN "Are there any specific requirements or rules you need to follow?"
           ELSE "What tools or resources do you already have available?"
      [] agent.type = "outcomes" ->
           IF ~hasAnswered
           THEN "What would success look like? How will you know it's working?"
           ELSE IF agent.questionsAsked = 1
           THEN "What specific results or outcomes are you hoping for?"
           ELSE "How will you measure whether this is successful?"
      [] agent.type = "emotions" ->
           IF ~hasAnswered
           THEN IF Includes(lower, W_frustrated) \/ Includes(lower, W_stuck)
                THEN "What's been frustrating you about this? What have you tried?"
                ELSE IF Includes(lower, W_excited) \/ Includes(lower, W_want)
                THEN "What excites you most about this idea?"
                ELSE "What motivated you to start thinking about this?"
           ELSE IF agent.questionsAsked = 1
           THEN "What concerns or worries do you have about moving forward?"
           ELSE "What would make you feel confident that this is the right direction?"
      [] OTHER -> getFallbackQuestion(agent.type, agent.questionsAsked)

\* What the backend can answer to a question prompt: a question ("text"),
\* text that is empty once trimmed ("empty"), or a failure ("fail").
QOutcomes == {"text", "empty", "fail"}
BackendQuestion == "What exactly should it do?"

\* generateNextQuestion: the agent with its currentQuestion set
generateNextQuestion(agent, userContext, outcome) ==
    IF outcome = "text" THEN [agent EXCEPT !.currentQuestion = BackendQuestion]
    ELSE IF outcome = "empty" THEN [agent EXCEPT !.currentQuestion = ""]
    ELSE LET question == getSmartQuestion(agent, userContext) IN
         [agent EXCEPT !.currentQuestion =
             IF question = "" THEN getFallbackQuestion(agent.type, agent.questionsAsked)
             ELSE question]

\* spawnAgents: the new agents, first questions generated (outcome q[i] for
\* the i-th agent)
spawnAgents(recommendedStrategy, userInput, ambiguityScore, q) ==
    LET agentTypes == determineAgentTypes(recommendedStrategy, ambiguityScore) IN
    Eval([ i \in 1..Len(agentTypes) |->
            generateNextQuestion(createAgent(agentTypes[i]), userInput, q[i]) ])

\* variant: one question more than the cap is allowed
shouldCompleteAfterCap(agent) ==
    agent.questionsAsked > agent.maxQuestions \/ agent.confidence > 8

\* the completion test that ends processResponse
shouldComplete(agent) ==
    agent.questionsAsked >= agent.maxQuestions \/ agent.confidence > 8

\* the guard that opens processResponse (the registry lookup is done by the
\* caller)
acceptsResponse(agent) == ~Falsy(agent.currentQuestion)

\* processResponse on a registered agent
processResponse(agent, userResponse) ==
    IF ~acceptsResponse(agent) THEN agent
    ELSE LET asked == [agent EXCEPT
                         !.conversationHistory =
                             Append(@, [question |-> agent.currentQuestion,
                                        answer |-> userResponse]),
                         !.questionsAsked = @ + 1]
         IN  IF FactsOf(userResponse).noInfo
             THEN [asked EXCEPT !.status = "completed"]
             ELSE LET found == [asked EXCEPT
                                  !.findings = @ \o FactsOf(userResponse).findings,
                                  !.confidence = Min(10, @ + 4)]
                  IN  IF shouldComplete(found)
                      THEN [found EXCEPT !.status = "completed"]
                      ELSE found

\* An extracted intent; every field is optional.
Intent(goal, scope, constraints, successCriteria, emotionalContext) ==
    [ goal |-> goal, scope |-> scope, constraints |-> constraints,
      successCriteria |-> successCriteria, emotionalContext |-> emotionalContext ]

RECURSIVE Flatten(_)
Flatten(ss) == IF ss = <<>> THEN <<>> ELSE Head(ss) \o Flatten(Tail(ss))

FirstOfType(agentList, type) ==
    LET m == SelectSeq(agentList, LAMBDA a : a.type = type) IN
    IF m = <<>> THEN None ELSE Some(m[1])

\* What the backend can answer to the synthesis prompt: a failure or text
\* without usable JSON ("error"), a JSON object with an extractedIntent
\* ("json"), or a JSON object without one ("jsonNoIntent").
SynthReplies == {"error", "json", "jsonNoIntent"}

\* synthesizeFindings: confidence is the mean of the agents' confidences,
\* kept as the fraction num/den (in tenths) and as the double that the
\* reduce and the division yield
avgConfidence64(confidences) == Divide64(Sum64(Zero64, confidences), Len(confidences))

synthesizeFindings(agentList, reply) ==
    LET avgConfidence ==
            [ num |-> SumSeq([i \in 1..Len(agentList) |-> agentList[i].confidence]),
              den |-> Len(agentList),
              value |-> avgConfidence64([i \in 1..Len(agentList) |-> agentList[i].confidence]) ]
        allFindings == Flatten([i \in 1..Len(agentList) |-> agentList[i].findings])
        long == SelectSeq(allFindings, LAMBDA f : Len(CharsOf(f)) > 20)
        scopeAgent == FirstOfType(agentList, "scope")
        consAgent == FirstOfType(agentList, "constraints")
        outAgent == FirstOfType(agentList, "outcomes")
    IN
    CASE reply = "json" ->
           [ summary |-> "backend",
             extractedIntent |-> Some(Intent(Some(BackendGoal), Some(BackendScope),
                                             Some(<<>>), Some(<<>>), None)),
             confidence |-> avgConfidence ]
      [] reply = "jsonNoIntent" ->
           [ summary |-> "backend", extractedIntent |-> None,
             confidence |-> avgConfidence ]
      [] OTHER ->
           [ summary |-> "fallback",
             extractedIntent |-> Some(Intent(
                 Some(IF long # <<>> THEN long[1] ELSE DefaultGoal),
                 Some(IF IsSome(scopeAgent) /\ Val(scopeAgent).findings # <<>>
                         /\ Val(scopeAgent).findings[1] # EmptyText
                      THEN Val(scopeAgent).findings[1] ELSE DefaultScope),
                 Some(IF IsSome(consAgent) THEN Val(consAgent).findings ELSE <<>>),
                 Some(IF IsSome(outAgent) THEN Val(outAgent).findings ELSE <<>>),
                 None)),
             confidence |-> avgConfidence ]

\* ---------------------------------------------------------------- state
VARIABLES
    sessions,   \* MetaLoopEngine.sessions: session id -> optional MetaLoopState
    agents,     \* SubAgentOrchestrator.activeAgents: agent id (index) -> SubAgent
    store,      \* the snapshot table: the snapshots written so far
    nextSnap,   \* the next snapshot id handed out by uuidv4()
    clock,      \* Date.now()
    calls,      \* calls and container restarts so far
    faults,     \* store failures, backend failures and malformed replies so far
    last,       \* how the most recent call ended
    cache,      \* the cache bucket: cache key -> optional CacheEntry
    fb,         \* how the most recent lambda / cascade invocation ended
    fbCalls,    \* lambda / cascade invocations made so far
    primary,    \* ENV.PRIMARY_LLM_BACKEND
    unit        \* a function called on its own: its arguments and its result

vars == <<sessions, agents, store, nextSnap, clock, calls, faults, last, cache, fb,
          fbCalls, primary, unit>>
engineVars == <<sessions, agents, store, nextSnap, calls, faults, last>>
cascadeVars == <<clock, cache, fb, fbCalls, primary>>
unitVars == <<unit>>
\* no function has been called on its own
NoUnit == [op |-> "none"]

Sessions == {"s1"}

\* -------------------------------------------------- IntentSnapshotManager
Fraction(num, den) == [num |-> num, den |-> den]

\* elements of curr that prev does not include
NewItems(prev, curr) ==
    SelectSeq(curr, LAMBDA c : \A i \in DOMAIN prev : prev[i] # c)
OrEmpty(o) == IF IsSome(o) THEN Val(o) ELSE <<>>
Abs(n) == IF n < 0 THEN -n ELSE n

inferDriftReason(changes) ==
    IF changes = <<>> THEN "No significant changes"
    ELSE IF "Goal changed" \in Range(changes) THEN "User refined or pivoted their goal"
    ELSE IF "Clarity improved" \in Range(changes) THEN "Clarification process working"
    ELSE IF "Added constraints" \in Range(changes)
         THEN "User added more context about limitations"
    ELSE IF "Added success criteria" \in Range(changes)
         THEN "User clarified desired outcomes"
    ELSE "Intent evolved through conversation"

\* variant: the magnitude is not capped
clampMagnitudeOff(magnitude) == magnitude

\* Math.min(1, magnitude), in units of 1/200
clampMagnitude(magnitude) == Min(200, magnitude)

\* variant: the vector names the snapshot it is attached to
driftFromCurrent(previous, current) == current.snapshotId

\* from: previous.snapshotId
driftFrom(previous, current) == previous.snapshotId

\* calculateDrift, for snapshots that both carry an extracted intent; the
\* magnitude is kept in units of 1/200 (0.4 is 80, 0.15 is 30)
calculateDrift(previous, current) ==
    LET p == Val(previous.extractedIntent)
        c == Val(current.extractedIntent)
        goalChanged == p.goal # c.goal
        scopeChanged == p.scope # c.scope
        newConstraints == NewItems(OrEmpty(p.constraints), OrEmpty(c.constraints))
        newCriteria == NewItems(OrEmpty(p.successCriteria), OrEmpty(c.successCriteria))
        scoreDelta == Abs(current.ambiguityScore - previous.ambiguityScore)
        changes ==
               (IF goalChanged THEN <<"Goal changed">> ELSE <<>>)
            \o (IF scopeChanged THEN <<"Scope refined">> ELSE <<>>)
            \o (IF Len(newConstraints) > 0 THEN <<"Added constraints">> ELSE <<>>)
            \o (IF Len(newCriteria) > 0 THEN <<"Added success criteria">> ELSE <<>>)
            \o (IF scoreDelta > 20
                THEN IF current.ambiguityScore < previous.ambiguityScore
                     THEN <<"Clarity improved">> ELSE <<"Clarity decreased">>
                ELSE <<>>)
        magnitude ==
               (IF goalChanged THEN 80 ELSE 0)
             + (IF scopeChanged THEN 40 ELSE 0)
             + 30 * Len(newConstraints)
             + 30 * Len(newCriteria)
             + (IF scoreDelta > 20 THEN scoreDelta ELSE 0)
    IN  [ from |-> driftFrom(previous, current), changes |-> changes,
          reason |-> inferDriftReason(changes), magnitude |-> clampMagnitude(magnitude) ]

\* the snapshots of a session as the table holds them, in write order
StoredIn(st, sid) == SelectSeq(st, LAMBDA s : s.sessionId = sid)
StoredOf(sid) == StoredIn(store, sid)

IsTimeSorted(r) == \A i \in 1..(Len(r) - 1) : r[i].timestamp <= r[i + 1].timestamp

\* every order of the indices in I
RECURSIVE OrdersOf(_)
OrdersOf(I) ==
    IF I = {} THEN { <<>> }
    ELSE UNION { { <<i>> \o r : r \in OrdersOf(I \ {i}) } : i \in I }

\* getSessionSnapshots: every result the query and the sort by timestamp can
\* give; the table returns equal timestamps in no particular order, and a
\* failed query gives []
getSessionSnapshots(sid, queryOk) ==
    IF ~queryOk THEN { <<>> }
    ELSE LET s == StoredOf(sid)
             results == { Eval([ i \in 1..Len(s) |-> s[o[i]] ]) : o \in OrdersOf(1..Len(s)) }
         IN  { r \in results : IsTimeSorted(r) }

\* getSnapshot
getSnapshot(sid, snapshotId, queryOk) ==
    LET m == IF queryOk
             THEN SelectSeq(StoredOf(sid), LAMBDA s : s.snapshotId = snapshotId)
             ELSE <<>>
    IN  IF m = <<>> THEN None ELSE Some(m[1])

\* createSnapshot: "ok" with the snapshot written, or "threw" when
\* calculateDrift dereferences a missing intent or the write is rejected
createSnapshot(sid, userInput, ambiguityScore, extractedIntent, confidence, previousSnapshotId, queryOk, writeOk) ==
    The({
    LET base == [ snapshotId |-> nextSnap, sessionId |-> sid, timestamp |-> clock,
                  ambiguityScore |-> ambiguityScore, userInput |-> userInput,
                  extractedIntent |-> extractedIntent, confidence |-> confidence,
                  driftVector |-> None ]
        driftThrows == /\ IsSome(previousSnapshot)
                       /\ \/ ~IsSome(Val(previousSnapshot).extractedIntent)
                          \/ ~IsSome(extractedIntent)
        snapshot == IF IsSome(previousSnapshot) /\ ~driftThrows
                    THEN [base EXCEPT !.driftVector =
                             Some(calculateDrift(Val(previousSnapshot), base))]
                    ELSE base
    IN  IF driftThrows \/ ~writeOk
        THEN [ outcome |-> "threw", snapshot |-> base ]
        ELSE [ outcome |-> "ok", snapshot |-> snapshot ]
    : previousSnapshot \in { IF IsSome(previousSnapshotId)
                             THEN getSnapshot(sid, Val(previousSnapshotId), queryOk)
                             ELSE None } })

\* -------------------------------------------------------- GoalEchoGenerator
\* confidence > 0.7 for a confidence kept as a fraction of tenths
Above07(confidence) == confidence.num > 7 * confidence.den

\* generateEcho, for a defined intent (an undefined one makes it throw)
generateEcho(extractedIntent, confidence, ambiguityScore) ==
    [ intent |-> extractedIntent, confidence |-> confidence,
      needsConfirmation |-> Above07(confidence) /\ ambiguityScore < 40 ]

\* ----------------------------------------------------------- MetaLoopEngine
UserMsg(text) == [role |-> "user", content |-> text, kind |-> "input"]
AssistantMsg(kind) == [role |-> "assistant", content |-> <<>>, kind |-> kind]

\* how a call ended; the fields a call does not set keep these defaults
NoCall ==
    [ op |-> "none", sid |-> "", input |-> EmptyText, outcome |-> "none",
      needsClarification |-> FALSE, response |-> "", delegated |-> FALSE,
      loaded |-> FALSE, hadAgents |-> FALSE, wantsToSkip |-> FALSE,
      allComplete |-> FALSE, storedBefore |-> 0, activeBefore |-> {},
      registryBefore |-> 0, confidence |-> Fraction(0, 1), newScore |-> 0,
      agentId |-> 0, questions |-> <<>> ]

\* Variants of the definitions that follow them, each with one plausible
\* slip; the properties at the end of the module are required to tell a
\* variant from the definition.
initialStatusInclusive(score) == IF score >= 60 THEN "clarifying" ELSE "ready"
\* variant: the score alone decides
isReadyByScore(confidence, newScore) == newScore < 40
isReadyInclusive(confidence, newScore) == Above07(confidence) /\ newScore <= 40

\* status: analysis.score > 60 ? 'clarifying' : 'ready'
initialStatus(score) == IF score > 60 THEN "clarifying" ELSE "ready"
\* if (analysis.score > 60) spawn sub-agents
isAmbiguous(score) == score > 60
\* if (synthesis.confidence > 0.7 && newAnalysis.score < 40)
isReady(confidence, newScore) == Above07(confidence) /\ newScore < 40

wantsToSkipText(userResponse) ==
    LET lower == Trim(ToLower(userResponse)) IN
    \E i \in DOMAIN skipPhrases :
        lower = skipPhrases[i] \/ Includes(lower, skipPhrases[i])

SkipFacts ==
    { [ input |-> u, skip |-> wantsToSkipText(CharsOf(u)) ] : u \in UserInputs }
wantsToSkip(userResponse) == (CHOOSE f \in SkipFacts : f.input = userResponse).skip

extractIntentFromAnalysis(analysis, input) ==
    LET markers == Val(analysis.signals.emotionalMarkers) IN
    Intent(IF Len(CharsOf(input)) > 10
           THEN Some(AtomOf(Substring0(CharsOf(input), 100))) ELSE None,
           None, None, None,
           IF Len(markers) > 0 THEN Some(markers) ELSE None)

\* generateClarificationResponse reads signals.hedgingLanguage.length and
\* signals.vagueTerms.length
clarificationThrows(analysis) ==
    ~IsSome(analysis.signals.hedgingLanguage) \/ ~IsSome(analysis.signals.vagueTerms)

\* the ids the registry gives to n agents added to reg
NewIds(reg, n) == [i \in 1..n |-> Len(reg) + i]

\* startSession(sessionId, initialInput) from the engine state (ss, reg, st,
\* ns): reply is the backend's answer to the analysis prompt, writeOk the
\* fate of the snapshot write, q the backend's answers to the question prompts
startSession(ss, reg, st, ns, sid, initialInput, reply, writeOk, q) ==
    The({
    LET state0 == [ sessionId |-> sid, iteration |-> 0,
                    currentAmbiguityScore |-> analysis.score,
                    previousAmbiguityScore |-> None,
                    activeSubAgents |-> <<>>,
                    conversationHistory |-> <<UserMsg(initialInput)>>,
                    intentSnapshots |-> <<>>,
                    currentGoalEcho |-> None,
                    status |-> initialStatus(analysis.score) ]
        call == [NoCall EXCEPT !.op = "startSession", !.sid = sid,
                               !.input = initialInput, !.registryBefore = Len(reg),
                               !.newScore = analysis.score]
        threw(state, reg2, st2, ns2) ==
            [ sessions |-> [ss EXCEPT ![sid] = Some(state)], agents |-> reg2,
              store |-> st2, nextSnap |-> ns2,
              last |-> [call EXCEPT !.outcome = "threw"] ]
        returned(state, reg2, st2, ns2, response, nc) ==
            [ sessions |-> [ss EXCEPT ![sid] = Some(state)], agents |-> reg2,
              store |-> st2, nextSnap |-> ns2,
              last |-> [call EXCEPT !.outcome = "returned", !.response = response,
                                    !.needsClarification = nc] ]
    IN
    IF ~IsSome(analysis.signals.emotionalMarkers) THEN threw(state0, reg, st, ns)
    ELSE
    The({
    IF created.outcome = "threw" THEN threw(state0, reg, st, ns)
    ELSE
    LET snapshot == created.snapshot
        st1 == Append(st, snapshot)
        state1 == [state0 EXCEPT !.intentSnapshots = Append(@, snapshot)]
    IN
    IF isAmbiguous(analysis.score)
    THEN The({
         LET reg1 == reg \o newAgents
             state2 == [state1 EXCEPT !.activeSubAgents = NewIds(reg, Len(newAgents))]
         IN  IF clarificationThrows(analysis) THEN threw(state2, reg1, st1, ns + 1)
             ELSE returned([state2 EXCEPT !.conversationHistory =
                                Append(@, AssistantMsg("clarification"))],
                           reg1, st1, ns + 1, "clarification", TRUE)
         : newAgents \in { spawnAgents(analysis.recommendedStrategy, initialInput,
                                       analysis.score, q) } })
    ELSE LET goalEcho == generateEcho(snapshot.extractedIntent, snapshot.confidence,
                                      analysis.score)
         IN  returned([state1 EXCEPT !.currentGoalEcho = Some(goalEcho),
                                     !.conversationHistory =
                                         Append(@, AssistantMsg("ready to generate"))],
                      reg, st1, ns + 1, "ready to generate", FALSE)
    : created \in { createSnapshot(sid, initialInput, analysis.score,
                                   Some(extractIntentFromAnalysis(analysis, initialInput)),
                                   Fraction(3, 1), None, TRUE, writeOk) } })
    : analysis \in { analyze(initialInput, reply) } })

\* variant: a state is reconstructed even from an empty query result
loadSessionStateBlank(sid, snapshots) ==
    Some([ sessionId |-> sid, iteration |-> Len(snapshots),
           currentAmbiguityScore |-> 50,
           previousAmbiguityScore |-> None,
           activeSubAgents |-> <<>>,
           conversationHistory |-> <<>>,
           intentSnapshots |-> snapshots,
           status |-> "clarifying",
           currentGoalEcho |-> None ])

\* loadSessionState from the query result snapshots
loadSessionState(sid, snapshots) ==
    IF Len(snapshots) = 0 THEN None
    ELSE LET latestSnapshot == snapshots[Len(snapshots)] IN
         IF ~IsSome(latestSnapshot.extractedIntent) THEN None
         ELSE Some([ sessionId |-> sid, iteration |-> Len(snapshots),
                     currentAmbiguityScore |-> latestSnapshot.ambiguityScore,
                     previousAmbiguityScore |->
                         IF Len(snapshots) > 1
                         THEN Some(snapshots[Len(snapshots) - 1].ambiguityScore)
                         ELSE None,
                     activeSubAgents |-> <<>>,
                     conversationHistory |-> <<>>,
                     intentSnapshots |-> snapshots,
                     status |-> IF latestSnapshot.ambiguityScore < 40
                                THEN "ready" ELSE "clarifying",
                     currentGoalEcho |->
                         Some(generateEcho(latestSnapshot.extractedIntent,
                                           latestSnapshot.confidence,
                                           latestSnapshot.ambiguityScore)) ])

\* ------------------------------------------------------- the backends
Backends == {"bedrock", "nim"}
\* adapter.invoke ends with a response ("ok"), with one of the three errors
\* the adapters classify as retryable, or with a generic Error ("other")
RetryableErrors == {"LLMTimeoutError", "LLMRateLimitError", "LLMServiceUnavailableError"}
InvokeOutcomes == {"ok", "other"} \cup RetryableErrors

\* FallbackHandler.shouldTriggerFallback
shouldTriggerFallback(error) ==
    \/ error = "LLMTimeoutError"
    \/ error = "LLMRateLimitError"
    \/ error = "LLMServiceUnavailableError"

\* ------------------------------------------------------- CacheManager
CACHE_TTL_SECONDS == 60 * 60
\* the clock counts half hours; Date.now() in milliseconds
TickMs == 30 * 60 * 1000
Now == clock * TickMs

\* originalRequest.type: a string, absent, or a value that is no string
\* (originalRequest is typed any)
NonString == "<number>"
RequestTypes == {"intent", "identity_check", "chain", Undefined, NonString}
TypeChars(type) ==
    CASE type = "intent" -> <<"i", "n", "t", "e", "n", "t">>
      [] type = "identity_check" ->
           <<"i", "d", "e", "n", "t", "i", "t", "y", "_", "c", "h", "e", "c", "k">>
      [] type = "chain" -> <<"c", "h", "a", "i", "n">>
W_identity == <<"i", "d", "e", "n", "t", "i", "t", "y">>
W_verify == <<"v", "e", "r", "i", "f", "y">>
W_clarify == <<"c", "l", "a", "r", "i", "f", "y">>
W_intent == <<"i", "n", "t", "e", "n", "t">>

FbInputs == {"book a flight"}

\* generateCacheKey: the hash of type, input and context, kept as the pair
\* that is hashed (one context throughout)
generateCacheKey(request) == <<request.type, request.input>>
CacheKeys == {generateCacheKey([type |-> t, input |-> i]) : t \in RequestTypes, i \in FbInputs}

\* the expiry test of CacheManager.get
expired(entry, now) == now - entry.timestamp > entry.ttl * 1000

\* CacheManager.get: "hit" with the entry, "miss" (no such key, or expired),
\* or "threw" (CacheError).  getOk and setOk: the fate of the bucket read and
\* of the write that stores the incremented hit count.
get(c, cacheKey, now, getOk, setOk) ==
    IF ~getOk THEN [ outcome |-> "threw", entry |-> None, cache |-> c ]
    ELSE IF ~IsSome(c[cacheKey]) THEN [ outcome |-> "miss", entry |-> None, cache |-> c ]
    ELSE LET entry == Val(c[cacheKey]) IN
         IF expired(entry, now)
         THEN [ outcome |-> "miss", entry |-> None, cache |-> c ]
         ELSE LET counted == [entry EXCEPT !.hitCount = @ + 1] IN
              IF ~setOk THEN [ outcome |-> "threw", entry |-> None, cache |-> c ]
              ELSE [ outcome |-> "hit", entry |-> Some(counted),
                     cache |-> [c EXCEPT ![cacheKey] = Some(counted)] ]

\* CacheManager.cacheResponse: the cache with the new entry
cacheResponse(c, request, response, llmBackend, now) ==
    [c EXCEPT ![generateCacheKey(request)] =
        Some([ cacheKey |-> generateCacheKey(request), response |-> response,
               timestamp |-> now, ttl |-> CACHE_TTL_SECONDS, hitCount |-> 0,
               llmBackend |-> llmBackend ])]

\* ------------------------------------------------------ FallbackHandler
\* variant: the static response is consulted before the cache
tierOrderStaticFirst == <<"alternative_backend", "static_flow", "cache", "manual">>

\* the tiers of handle, in the order of its statements
tierOrder == <<"alternative_backend", "cache", "static_flow", "manual">>

InSeq(s, x) == \E i \in DOMAIN s : s[i] = x

\* tryAlternativeBackend's choice
fallbackBackend(attemptedBackends) ==
    IF InSeq(attemptedBackends, "bedrock") THEN "nim" ELSE "bedrock"

\* the guard of tier 1
alternativeLeft(attemptedBackends) ==
    ~InSeq(attemptedBackends, "bedrock") \/ ~InSeq(attemptedBackends, "nim")

\* getStaticResponse: "threw" when type is no string (requestType.includes
\* is not a function)
getStaticResponse(request) ==
    IF request.originalRequest.type = NonString THEN [ outcome |-> "threw", response |-> None ]
    ELSE LET requestType == IF request.originalRequest.type = Undefined THEN <<>>
                            ELSE TypeChars(request.originalRequest.type)
         IN  IF Includes(requestType, W_identity) \/ Includes(requestType, W_verify)
             THEN [ outcome |-> "ok", response |-> Some("IDENTITY_VERIFICATION_PROMPT") ]
             ELSE IF Includes(requestType, W_clarify) \/ Includes(requestType, W_intent)
             THEN [ outcome |-> "ok", response |-> Some("CLARIFICATION_PROMPT") ]
             ELSE [ outcome |-> "failed", response |-> None ]

\* what adapter.invoke of backend b resolves to
LlmResponse(b) == IF b = "bedrock" THEN "bedrock response" ELSE "nim response"

\* One tier of handle: "ok" with a response, "failed", "skipped" or "threw".
\* env: the outcome of the alternate backend's invoke (alt) and of the
\* bucket's read and write (getOk, setOk).
tryTier(tier, request, c, now, env) ==
    CASE tier = "alternative_backend" ->
           IF ~alternativeLeft(request.attemptedBackends)
           THEN [ outcome |-> "skipped", response |-> None, cache |-> c, backend |-> None ]
           ELSE LET b == fallbackBackend(request.attemptedBackends) IN
                IF env.alt = "ok"
                THEN [ outcome |-> "ok", response |-> Some(LlmResponse(b)), cache |-> c,
                       backend |-> Some(b) ]
                ELSE [ outcome |-> "failed", response |-> None, cache |-> c,
                       backend |-> Some(b) ]
      [] tier = "cache" ->
           LET r == get(c, generateCacheKey(request.originalRequest), now,
                        env.getOk, env.setOk)
           IN  IF r.outcome = "hit"
               THEN [ outcome |-> "ok", response |-> Some(Val(r.entry).response),
                      cache |-> r.cache, backend |-> None ]
               ELSE [ outcome |-> "failed", response |-> None, cache |-> r.cache,
                      backend |-> None ]
      [] tier = "static_flow" ->
           LET r == getStaticResponse(request) IN
           [ outcome |-> r.outcome, response |-> r.response, cache |-> c, backend |-> None ]
      [] tier = "manual" ->
           [ outcome |-> "ok", response |-> Some("technical difficulties"), cache |-> c,
             backend |-> None ]

\* handle from tier number i on; trace lists the tiers gone through so far
RECURSIVE handleFrom(_, _, _, _, _, _, _)
handleFrom(i, request, c, now, env, trace, alt) ==
    LET tier == tierOrder[i]
        r == tryTier(tier, request, c, now, env)
        trace2 == Append(trace, [tier |-> tier, outcome |-> r.outcome])
        alt2 == IF IsSome(r.backend) THEN r.backend ELSE alt
    IN  CASE r.outcome = "ok" ->
               [ outcome |-> "returned", strategy |-> tier, response |-> r.response,
                 requiresUserInput |-> (tier = "manual"), tiers |-> trace2,
                 altBackend |-> alt2, cache |-> r.cache ]
          [] r.outcome = "threw" ->
               [ outcome |-> "threw", strategy |-> Undefined, response |-> None,
                 requiresUserInput |-> FALSE, tiers |-> trace2,
                 altBackend |-> alt2, cache |-> r.cache ]
          [] OTHER -> handleFrom(i + 1, request, r.cache, now, env, trace2, alt2)

\* FallbackHandler.handle(request)
handle(request, c, now, env) == handleFrom(1, request, c, now, env, <<>>, None)

\* ------------------------------------------------- invocation records
NoHandle ==
    [ outcome |-> "none", strategy |-> Undefined, response |-> None,
      requiresUserInput |-> FALSE, tiers |-> <<>>, altBackend |-> None ]
\* how an invocation ended: the backends the site had invoked before the
\* cascade, the error of its own backend call, and what handle did
NoFb ==
    [ op |-> "none", outcome |-> "none", response |-> None, attempted |-> <<>>,
      primaryError |-> "none", handled |-> FALSE, h |-> NoHandle ]
HandleRecord(r) ==
    [ outcome |-> r.outcome, strategy |-> r.strategy, response |-> r.response,
      requiresUserInput |-> r.requiresUserInput, tiers |-> r.tiers,
      altBackend |-> r.altBackend ]

AttemptedLists == { <<>>, <<"bedrock">>, <<"nim">>, <<"bedrock", "nim">> }
\* what a call of handle meets: the alternate backend's invoke ends well, with
\* a retryable error or with another error; the bucket can be read, written
AltOutcomes == {"ok", "LLMTimeoutError", "other"}
CascadeEnvs == [ alt : AltOutcomes, getOk : BOOLEAN, setOk : BOOLEAN ]
\* the outcomes of a site's own backend call: those of invoke, and a response
\* whose content is no JSON
SiteOutcomes == InvokeOutcomes \cup {"bad json"}


\* the agents of a batch, read through the registry
Batch(reg, ids) == Eval([i \in 1..Len(ids) |-> reg[ids[i]]])
ActiveIds(reg, ids) == SelectSeq(ids, LAMBDA id : reg[id].status = "active")

\* variant: the skip records the finding and leaves the status alone
skipAgentKeepsStatus(agent) ==
    IF agent.status = "active"
    THEN [agent EXCEPT !.findings = Append(@, UncertaintyFinding)]
    ELSE agent

\* the loop-level skip: every active agent of the batch is completed
skipAgent(agent) ==
    IF agent.status = "active"
    THEN [agent EXCEPT !.status = "completed",
                       !.findings = Append(@, UncertaintyFinding)]
    ELSE agent

\* what continueSession does to an active agent of the batch
applyResponse(agent, userResponse) ==
    IF wantsToSkip(userResponse) THEN skipAgent(agent)
    ELSE processResponse(agent, userResponse)

\* const allComplete = state.activeSubAgents.every(a => a.status === 'completed')
allCompleted(reg, ids) == \A i \in 1..Len(ids) : reg[ids[i]].status = "completed"

\* the question shown for an agent whose generated question is empty
TellMeMore == "Can you tell me more about what you want to accomplish?"

\* the registry after the questions of the listed agents were generated, and
\* the questions that make up the response
questionsFor(reg, asked, lastUserMessage, q) ==
    The({ [ agents |-> reg2,
            questions |->
                Eval([ i \in 1..Len(asked) |->
                         [ agentId |-> asked[i], type |-> reg2[asked[i]].type,
                           question |-> IF Falsy(reg2[asked[i]].currentQuestion)
                                        THEN TellMeMore
                                        ELSE reg2[asked[i]].currentQuestion ] ]) ]
          : reg2 \in { Eval([id \in DOMAIN reg |->
                           IF \E i \in 1..Len(asked) : asked[i] = id
                           THEN generateNextQuestion(reg[id], lastUserMessage,
                                    LET i == CHOOSE i \in 1..Len(asked) : asked[i] = id
                                    IN  IF i \in DOMAIN q THEN q[i] ELSE "fail")
                           ELSE reg[id]]) } })

\* variant: every agent of the batch is asked again
generateNextQuestionsOfAll(reg, ids, lastUserMessage, q) ==
    questionsFor(reg, ids, lastUserMessage, q)

\* generateNextQuestions(state): one question per agent of the batch that is
\* still active, generated one after the other
generateNextQuestions(reg, ids, lastUserMessage, q) ==
    questionsFor(reg, ActiveIds(reg, ids), lastUserMessage, q)

\* variant: the response goes to every registered agent
addressedAny(ids, id) == TRUE
\* the agents a response is handed to: those of state.activeSubAgents
addressed(ids, id) == id \in Range(ids)

\* continueSession(sessionId, userResponse) from the engine state (ss, reg,
\* st, ns).  loadOk and snapshots: the query of loadSessionState; synth and
\* reply: the backend's answers to the synthesis and analysis prompts;
\* queryOk and writeOk: the query and the write of createSnapshot; q: the
\* backend's answers to the question prompts.
continueSession(ss, reg, st, ns, sid, userResponse, snapshots, synth, reply, queryOk, writeOk, q) ==
    The({
    LET inMemory == IsSome(ss[sid]) IN
    IF ~inMemory /\ ~IsSome(loadedState)
    THEN LET r == startSession(ss, reg, st, ns, sid, userResponse, reply, writeOk, q) IN
         [r EXCEPT !.last = [@ EXCEPT !.op = "continueSession", !.delegated = TRUE,
                                      !.loaded = TRUE,
                                      !.storedBefore = Len(StoredIn(st, sid))]]
    ELSE
    LET stateIn == IF inMemory THEN Val(ss[sid]) ELSE Val(loadedState)
        state1 == [stateIn EXCEPT !.iteration = @ + 1,
                                  !.conversationHistory = Append(@, UserMsg(userResponse))]
        skip == wantsToSkip(userResponse)
        ids == state1.activeSubAgents
        call == [NoCall EXCEPT !.op = "continueSession", !.sid = sid,
                               !.input = userResponse, !.loaded = ~inMemory,
                               !.hadAgents = Len(ids) > 0, !.wantsToSkip = skip,
                               !.storedBefore = Len(StoredIn(st, sid)),
                               !.activeBefore = Range(ActiveIds(reg, ids)),
                               !.registryBefore = Len(reg)]
        threw(state, reg2, c) ==
            [ sessions |-> [ss EXCEPT ![sid] = Some(state)], agents |-> reg2,
              store |-> st, nextSnap |-> ns,
              last |-> [c EXCEPT !.outcome = "threw"] ]
        returned(state, reg2, st2, ns2, c, response, nc) ==
            [ sessions |-> [ss EXCEPT ![sid] =
                  Some([state EXCEPT !.conversationHistory =
                            Append(@, AssistantMsg(response))])],
              agents |-> reg2, store |-> st2, nextSnap |-> ns2,
              last |-> [c EXCEPT !.outcome = "returned", !.response = response,
                                 !.needsClarification = nc] ]
    IN
    IF Len(ids) = 0
    THEN \* No active agents - shouldn't happen
         [ sessions |-> [ss EXCEPT ![sid] = Some(state1)], agents |-> reg,
           store |-> st, nextSnap |-> ns,
           last |-> [call EXCEPT !.outcome = "returned",
                                 !.response = "Session state error",
                                 !.needsClarification = FALSE] ]
    ELSE
    The({
    LET allComplete == allCompleted(reg1, ids) IN
    IF ~allComplete
    THEN \* Continue with current agents: generateNextQuestions
         The({ returned(state1, next.agents, st, ns,
                        [call EXCEPT !.questions = next.questions],
                        "next questions", TRUE)
               : next \in { generateNextQuestions(reg1, ids, userResponse, q) } })
    ELSE
    The({
    LET call2 == [call EXCEPT !.allComplete = TRUE,
                              !.confidence = synthesis.confidence,
                              !.newScore = newAnalysis.score]
        state2 == [state1 EXCEPT !.status = "synthesizing",
                                 !.previousAmbiguityScore = Some(state1.currentAmbiguityScore),
                                 !.currentAmbiguityScore = newAnalysis.score]
    IN
    IF Len(state2.intentSnapshots) = 0 THEN threw(state2, reg1, call2)
    ELSE
    The({
    IF created.outcome = "threw" THEN threw(state2, reg1, call2)
    ELSE
    LET newSnapshot == created.snapshot
        st1 == Append(st, newSnapshot)
        state3 == [state2 EXCEPT !.intentSnapshots = Append(@, newSnapshot)]
    IN
    IF ~IsSome(synthesis.extractedIntent)
    THEN \* generateEcho dereferences the missing intent
         [ threw(state3, reg1, call2) EXCEPT !.store = st1, !.nextSnap = ns + 1 ]
    ELSE
    LET goalEcho == generateEcho(synthesis.extractedIntent, synthesis.confidence,
                                 newAnalysis.score)
        state4 == [state3 EXCEPT !.currentGoalEcho = Some(goalEcho)]
    IN
    IF isReady(synthesis.confidence, newAnalysis.score)
    THEN returned([state4 EXCEPT !.status = "ready"], reg1, st1, ns + 1, call2,
                  "final", FALSE)
    ELSE IF skip
    THEN returned([state4 EXCEPT !.status = "ready"], reg1, st1, ns + 1, call2,
                  "proceeding", FALSE)
    ELSE \* Need more clarification - spawn new agents
    The({
    LET reg2 == reg1 \o newAgents
        state5 == [state4 EXCEPT !.status = "clarifying",
                                 !.activeSubAgents = NewIds(reg1, Len(newAgents))]
    IN  IF clarificationThrows(newAnalysis)
        THEN [ threw(state5, reg2, call2) EXCEPT !.store = st1, !.nextSnap = ns + 1 ]
        ELSE returned(state5, reg2, st1, ns + 1, call2, "progress and clarification", TRUE)
    : newAgents \in { spawnAgents(newAnalysis.recommendedStrategy, userResponse,
                                  newAnalysis.score, q) } })
    : created \in { LET previousSnapshot ==
                           state2.intentSnapshots[Len(state2.intentSnapshots)]
                    IN  createSnapshot(sid, userResponse, newAnalysis.score,
                                       synthesis.extractedIntent, synthesis.confidence,
                                       Some(previousSnapshot.snapshotId),
                                       queryOk, writeOk) } })
    : synthesis \in { synthesizeFindings(Batch(reg1, ids), synth) },
      newAnalysis \in { analyze(userResponse, reply) } })
    : reg1 \in { Eval([id \in DOMAIN reg |->
                     IF addressed(ids, id) /\ reg[id].status = "active"
                     THEN applyResponse(reg[id], userResponse)
                     ELSE reg[id]]) } })
    : loadedState \in { IF IsSome(ss[sid]) THEN None
                        ELSE loadSessionState(sid, snapshots) } })

\* ------------------------------------------------------------- actions

Init ==
    /\ sessions = [sid \in Sessions |-> None]
    /\ agents = <<>>
    /\ store = <<>>
    /\ nextSnap = 1
    /\ clock = 0
    /\ calls = 0
    /\ faults = 0
    /\ last = NoCall
    /\ cache = [k \in CacheKeys |-> None]
    /\ fb = NoFb
    /\ fbCalls = 0
    /\ primary = "bedrock"
    /\ unit = NoUnit

\* the environment may fail MaxFaults times
Bit(b) == IF b THEN 1 ELSE 0
Faulty(n) == faults + n <= MaxFaults

\* the engine state and the call record after a call
Effect(r) ==
    /\ sessions' = r.sessions
    /\ agents' = r.agents
    /\ store' = r.store
    /\ nextSnap' = r.nextSnap
    /\ last' = r.last

Apply(result, n) ==
    /\ Faulty(n)
    /\ faults' = faults + n
    /\ \E r \in {result} :
          Effect(r)
    /\ calls' = calls + 1
    /\ UNCHANGED <<cascadeVars, unitVars>>

\* How the backend behaves during one call: it answers every prompt ("up"),
\* fails every prompt ("down"), answers the synthesis prompt without an
\* extractedIntent ("no intent"), or answers the first question prompt with
\* empty text ("empty question").  All but "up" are faults.
AdapterModes == {"up", "down", "no intent", "empty question"}
FaultyMode(mode) == mode # "up"
SynthOf(mode) ==
    CASE mode = "down" -> "error" [] mode = "no intent" -> "jsonNoIntent" [] OTHER -> "json"
QOf(mode, n) ==
    [ i \in 1..n |-> CASE mode = "down" -> "fail"
                       [] mode = "empty question" /\ i = 1 -> "empty"
                       [] OTHER -> "text" ]
\* the answers to the analysis prompt under a mode
RepliesOf(mode, replies) ==
    IF mode = "down" THEN { PlainReply("error") } ELSE replies

\* the number of question prompts a startSession call sends
SpawnCount(input, reply) ==
    LET analysis == analyze(input, reply) IN
    IF isAmbiguous(analysis.score)
    THEN Len(determineAgentTypes(analysis.recommendedStrategy, analysis.score))
    ELSE 0

StartSession(sid, input) ==
    /\ calls < MaxCalls
    /\ \E mode \in AdapterModes \ {"no intent"}, writeOk \in BOOLEAN :
       \E reply \in RepliesOf(mode, StartReplies) :
          /\ mode = "empty question" => SpawnCount(input, reply) > 0
          /\ Apply(startSession(sessions, agents, store, nextSnap, sid, input,
                                reply, writeOk, QOf(mode, SpawnCount(input, reply))),
                   Bit(FaultyMode(mode)) + Bit(Malformed(reply)) + Bit(~writeOk))

\* Which branch a continueSession call takes from the current state:
\* "load" (session not in memory), "no agents", "questions" (some agent stays
\* active) or "synthesize" (the whole batch is completed).
ContinuePhase(sid, input) ==
    IF ~IsSome(sessions[sid]) THEN "load"
    ELSE LET ids == Val(sessions[sid]).activeSubAgents
             done(id) == \/ agents[id].status = "completed"
                         \/ /\ agents[id].status = "active"
                            /\ applyResponse(agents[id], input).status = "completed"
         IN  IF Len(ids) = 0 THEN "no agents"
             ELSE IF \A i \in 1..Len(ids) : done(ids[i]) THEN "synthesize"
             ELSE "questions"

\* the number of question prompts a continueSession call sends
PromptCount(sid, input, phase, snapshots, reply) ==
    CASE phase = "load" ->
           IF IsSome(loadSessionState(sid, snapshots)) THEN 0
           ELSE SpawnCount(input, reply)
      [] phase = "questions" ->
           LET ids == Val(sessions[sid]).activeSubAgents IN
           Len(SelectSeq(ids, LAMBDA id :
                   agents[id].status = "active"
                   /\ applyResponse(agents[id], input).status = "active"))
      [] phase = "synthesize" ->
           LET analysis == analyze(input, reply) IN
           Len(determineAgentTypes(analysis.recommendedStrategy, analysis.score))
      [] OTHER -> 0

\* the choices of the environment are drawn only where the branch reads them
ContinueSession(sid, input) ==
    /\ calls < MaxCalls
    /\ LET phase == ContinuePhase(sid, input)
           flag(used) == IF used THEN BOOLEAN ELSE {TRUE}
       IN
       \E loadOk \in flag(phase = "load") :
       \E snapshots \in (IF phase = "load" THEN getSessionSnapshots(sid, loadOk)
                         ELSE { <<>> }) :
       \E mode \in (CASE phase = "synthesize" -> AdapterModes
                      [] phase = "no agents" -> {"up"}
                      [] OTHER -> AdapterModes \ {"no intent"}) :
       \E reply \in (CASE phase = "load" -> RepliesOf(mode, StartReplies)
                       [] phase = "synthesize" -> RepliesOf(mode, ContinueReplies)
                       [] OTHER -> { PlainReply("error") }) :
       \E queryOk \in flag(phase = "synthesize"), writeOk \in flag(phase # "questions") :
          /\ mode # "up" => PromptCount(sid, input, phase, snapshots, reply) > 0
                               \/ phase = "synthesize"
                               \/ (phase = "load" /\ mode = "down"
                                     /\ ~IsSome(loadSessionState(sid, snapshots)))
          /\ Apply(continueSession(sessions, agents, store, nextSnap, sid, input,
                                   snapshots, SynthOf(mode), reply, queryOk, writeOk,
                                   QOf(mode, PromptCount(sid, input, phase, snapshots, reply))),
                   Bit(~loadOk) + Bit(~queryOk) + Bit(~writeOk)
                     + Bit(FaultyMode(mode)) + Bit(Malformed(reply)))

\* a new Lambda container: const metaLoop = new MetaLoopEngine() starts with
\* an empty session map and an empty agent registry; the table survives
ColdStart ==
    /\ \E sid \in Sessions : IsSome(sessions[sid])
    /\ calls < MaxCalls
    /\ calls' = calls + 1
    /\ sessions' = [sid \in Sessions |-> None]
    /\ agents' = <<>>
    /\ last' = NoCall
    /\ UNCHANGED <<store, nextSnap, faults>>
    /\ UNCHANGED <<cascadeVars, unitVars>>

Next ==
    \/ \E sid \in Sessions, input \in StartInputs : StartSession(sid, input)
    \/ \E sid \in Sessions, input \in Responses : ContinueSession(sid, input)
    \/ ColdStart

Spec == Init /\ [][Next]_vars

\* ---------------------------------------- the orchestrator called directly
\* spawnAgents and processResponse are public methods of the orchestrator:
\* a caller that holds the orchestrator reaches every registered agent by id.
OrchStrategies == {"scope", "multi"}

OrchCall(op, input) == [NoCall EXCEPT !.op = op, !.input = input,
                                      !.outcome = "returned",
                                      !.registryBefore = Len(agents)]

SpawnAgents(strategy, input, score) ==
    /\ calls < MaxOrchCalls
    /\ \E mode \in AdapterModes \ {"no intent"} :
          /\ Faulty(Bit(FaultyMode(mode)))
          /\ faults' = faults + Bit(FaultyMode(mode))
          /\ agents' = agents \o spawnAgents(strategy, input, score,
                           QOf(mode, Len(determineAgentTypes(strategy, score))))
    /\ calls' = calls + 1
    /\ last' = OrchCall("spawnAgents", input)
    /\ UNCHANGED <<sessions, store, nextSnap>>
    /\ UNCHANGED <<cascadeVars, unitVars>>

\* processResponse(agentId, userResponse): a lookup that finds no agent
\* returns at once
ProcessResponse(agentId, userResponse) ==
    /\ calls < MaxOrchCalls
    /\ agents' = [id \in DOMAIN agents |->
                    IF id = agentId THEN processResponse(agents[id], userResponse)
                    ELSE agents[id]]
    /\ calls' = calls + 1
    /\ last' = [OrchCall("processResponse", userResponse) EXCEPT !.agentId = agentId]
    /\ UNCHANGED <<sessions, store, nextSnap, faults>>
    /\ UNCHANGED <<cascadeVars, unitVars>>

OrchNext ==
    \/ \E strategy \in OrchStrategies, input \in StartInputs :
          SpawnAgents(strategy, input, 61)
    \/ \E agentId \in 1..(Len(agents) + 1), userResponse \in Responses :
          ProcessResponse(agentId, userResponse)

SpecOrch == Init /\ [][OrchNext]_vars

\* ------------------------------------------------------------ the lambdas
\* the lambdas are deployed with either backend as the primary one
FbInit ==
    /\ sessions = [sid \in Sessions |-> None]
    /\ agents = <<>>
    /\ store = <<>>
    /\ nextSnap = 1
    /\ calls = 0
    /\ faults = 0
    /\ last = NoCall
    /\ clock = 0
    /\ cache = [k \in CacheKeys |-> None]
    /\ fb = NoFb
    /\ fbCalls = 0
    /\ primary \in Backends
    /\ unit = NoUnit

\* the choices of the environment are drawn only where the code reads them
Relevant(request, env) ==
    /\ ~alternativeLeft(request.attemptedBackends) => env.alt = "ok"
    /\ (alternativeLeft(request.attemptedBackends) /\ env.alt = "ok")
          => (env.getOk /\ env.setOk)
    /\ ~env.getOk => env.setOk
QuietEnv == [ alt |-> "ok", getOk |-> TRUE, setOk |-> TRUE ]

\* FallbackHandler.handle called with a request
Handle(request, env) ==
    /\ fbCalls < MaxFbCalls
    /\ Relevant(request, env)
    /\ \E r \in { handle(request, cache, Now, env) } :
       /\ cache' = r.cache
       /\ fb' = [NoFb EXCEPT !.op = "handle", !.outcome = r.outcome,
                             !.response = r.response,
                             !.attempted = request.attemptedBackends,
                             !.handled = TRUE, !.h = HandleRecord(r)]
    /\ fbCalls' = fbCalls + 1
    /\ UNCHANGED <<clock, primary>>
    /\ UNCHANGED <<engineVars, unitVars>>

\* the intent classifier lambda; lookupOk: the fate of its own cache read
\* and storeOk: the fate of its own cache writes
ClassifierRequest(input) == [ type |-> "intent", input |-> input ]
ClassifierFallback(input) ==
    [ originalRequest |-> ClassifierRequest(input), attemptedBackends |-> <<"bedrock">> ]

intentClassifier(c, now, prim, input, site, lookupOk, storeOk, env) ==
    LET request == ClassifierRequest(input)
        call == [NoFb EXCEPT !.op = "intent classifier"]
        cached == get(c, generateCacheKey(request), now, lookupOk, storeOk)
    IN
    IF cached.outcome = "threw"
    THEN [ cache |-> c, fb |-> [call EXCEPT !.outcome = "threw"] ]
    ELSE IF cached.outcome = "hit"
    THEN [ cache |-> cached.cache,
           fb |-> [call EXCEPT !.outcome = "returned",
                               !.response = Some(Val(cached.entry).response)] ]
    ELSE
    LET invoked == [call EXCEPT !.attempted = <<prim>>,
                                !.primaryError = IF site \in {"ok", "bad json"}
                                                 THEN "none" ELSE site]
    IN
    IF site = "ok"
    THEN IF storeOk
         THEN [ cache |-> cacheResponse(c, request, "classified", "bedrock", now),
                fb |-> [invoked EXCEPT !.outcome = "returned",
                                       !.response = Some("classified")] ]
         ELSE [ cache |-> c, fb |-> [invoked EXCEPT !.outcome = "threw"] ]
    ELSE IF site # "bad json" /\ shouldTriggerFallback(site)
    THEN LET r == handle(ClassifierFallback(input), c, now, env)
         IN  [ cache |-> r.cache,
               fb |-> [invoked EXCEPT !.outcome = r.outcome, !.response = r.response,
                                      !.handled = TRUE, !.h = HandleRecord(r)] ]
    ELSE [ cache |-> c, fb |-> [invoked EXCEPT !.outcome = "threw"] ]

IntentClassifier(input) ==
    /\ fbCalls < MaxFbCalls
    /\ \E site \in SiteOutcomes, lookupOk \in BOOLEAN, storeOk \in BOOLEAN :
       \E env \in (IF /\ site \in RetryableErrors
                       /\ get(cache, generateCacheKey(ClassifierRequest(input)), Now,
                              lookupOk, storeOk).outcome = "miss"
                    THEN { e \in CascadeEnvs : Relevant(ClassifierFallback(input), e) }
                    ELSE { QuietEnv }) :
          \E r \in { intentClassifier(cache, Now, primary, input, site, lookupOk,
                                       storeOk, env) } :
          /\ cache' = r.cache
          /\ fb' = r.fb
    /\ fbCalls' = fbCalls + 1
    /\ UNCHANGED <<clock, primary>>
    /\ UNCHANGED <<engineVars, unitVars>>

\* a lambda whose catch block logs and rethrows: the identity verifier and
\* the API chain planner
rethrowingLambda(op, prim, site) ==
    LET call == [NoFb EXCEPT !.op = op, !.attempted = <<prim>>,
                             !.primaryError = IF site \in {"ok", "bad json"}
                                              THEN "none" ELSE site]
    IN  IF site = "ok"
        THEN [call EXCEPT !.outcome = "returned", !.response = Some("result")]
        ELSE [call EXCEPT !.outcome = "threw"]

IdentityVerifier ==
    /\ fbCalls < MaxFbCalls
    /\ \E site \in SiteOutcomes : fb' = rethrowingLambda("identity verifier", primary, site)
    /\ fbCalls' = fbCalls + 1
    /\ UNCHANGED <<clock, cache, primary>>
    /\ UNCHANGED <<engineVars, unitVars>>

ChainPlanner ==
    /\ fbCalls < MaxFbCalls
    /\ \E site \in SiteOutcomes : fb' = rethrowingLambda("chain planner", primary, site)
    /\ fbCalls' = fbCalls + 1
    /\ UNCHANGED <<clock, cache, primary>>
    /\ UNCHANGED <<engineVars, unitVars>>

\* half an hour passes
Tick ==
    /\ clock < MaxClock
    /\ clock' = clock + 1
    /\ UNCHANGED <<cache, fb, fbCalls, primary>>
    /\ UNCHANGED <<engineVars, unitVars>>

FbNext ==
    \/ \E type \in RequestTypes, input \in FbInputs, attempted \in AttemptedLists,
          env \in CascadeEnvs :
          Handle([ originalRequest |-> [ type |-> type, input |-> input ],
                   attemptedBackends |-> attempted ], env)
    \/ \E input \in FbInputs : IntentClassifier(input)
    \/ IdentityVerifier
    \/ ChainPlanner
    \/ Tick

SpecFallback == FbInit /\ [][FbNext]_vars
\* ------------------------------------------- functions called on their own
\* calculateDrift on two snapshots that carry an extracted intent
MaxItems == 2
DriftItems == {"item a", "item b"}
ItemLists ==
    {None} \cup { Some(s) : s \in UNION { [1..n -> DriftItems] : n \in 0..MaxItems } }
DriftScores == {0, 20, 21, 100}
DriftSnapshot(id, goal, scope, constraints, successCriteria, score) ==
    [ snapshotId |-> id, sessionId |-> "s1", timestamp |-> id,
      ambiguityScore |-> score, userInput |-> InVague,
      extractedIntent |-> Some(Intent(goal, scope, constraints, successCriteria, None)),
      confidence |-> Fraction(3, 1), driftVector |-> None ]
PreviousSnapshots ==
    { DriftSnapshot(1, DefaultGoal, DefaultScope, cs, sc, score) :
        cs \in {None, Some(<<"item a">>)}, sc \in {None, Some(<<"item a">>)},
        score \in {0, 50} }
CurrentSnapshots ==
    { DriftSnapshot(2, goal, scope, cs, sc, score) :
        goal \in {DefaultGoal, BackendGoal}, scope \in {DefaultScope, BackendScope},
        cs \in ItemLists, sc \in ItemLists, score \in DriftScores }

DriftInit ==
    /\ sessions = [sid \in Sessions |-> None]
    /\ agents = <<>>
    /\ store = <<>>
    /\ nextSnap = 1
    /\ calls = 0
    /\ faults = 0
    /\ last = NoCall
    /\ clock = 0
    /\ cache = [k \in CacheKeys |-> None]
    /\ fb = NoFb
    /\ fbCalls = 0
    /\ primary = "bedrock"
    /\ \E previous \in PreviousSnapshots, current \in CurrentSnapshots :
          unit = [op |-> "input", previous |-> previous, current |-> current]

CalculateDrift ==
    /\ unit.op = "input"
    /\ unit' = [ op |-> "calculateDrift", previous |-> unit.previous,
                 current |-> unit.current,
                 drift |-> calculateDrift(unit.previous, unit.current) ]
    /\ UNCHANGED <<engineVars, cascadeVars>>

DriftNext == CalculateDrift
SpecDrift == DriftInit /\ [][DriftNext]_vars

\* AmbiguityDetector.analyze on one input and one answer of the backend
AnalyzeScores == {-1, 0, 1, 50, 100, 101}
AnalyzeReplies ==
       { [ kind |-> "json", score |-> score, strategy |-> strategy, signals |-> sig ] :
           score \in {None} \cup { Some(n) : n \in AnalyzeScores },
           strategy \in {"", "multi"}, sig \in {"absent", "partial", "full"} }
  \cup { PlainReply(kind) : kind \in {"error", "timeout", "notext", "unparsable"} }

AnalyzeInit ==
    /\ sessions = [sid \in Sessions |-> None]
    /\ agents = <<>>
    /\ store = <<>>
    /\ nextSnap = 1
    /\ calls = 0
    /\ faults = 0
    /\ last = NoCall
    /\ clock = 0
    /\ cache = [k \in CacheKeys |-> None]
    /\ fb = NoFb
    /\ fbCalls = 0
    /\ primary = "bedrock"
    /\ \E userInput \in UserInputs \cup {EmptyText}, reply \in AnalyzeReplies :
          unit = [op |-> "input", userInput |-> userInput, reply |-> reply]

Analyze ==
    /\ unit.op = "input"
    /\ unit' = [ op |-> "analyze", userInput |-> unit.userInput, reply |-> unit.reply,
                 outcome |-> "returned",
                 analysis |-> analyze(unit.userInput, unit.reply) ]
    /\ UNCHANGED <<engineVars, cascadeVars>>

AnalyzeNext == Analyze
SpecAnalyze == AnalyzeInit /\ [][AnalyzeNext]_vars


\* ------------------------------------- spawnAgents, one await at a time
\* spawnAgents creates and registers the agents, starts one
\* generateNextQuestion per agent and awaits them jointly (Promise.all): the
\* backend calls complete or fail in any order, and each continuation sets
\* the question of the agent its call was started for.
SpawnStrategies == {"multi", "scope", "constraints", "outcomes", "emotions", "custom"}
SpawnScores == {0, 70, 71, 100}

\* variant: every continuation writes to the agent created last
settleOnLast(reg, id, userContext, outcome) ==
    [reg EXCEPT ![Len(reg)].currentQuestion =
                    generateNextQuestion(reg[id], userContext, outcome).currentQuestion]

\* the continuation of generateNextQuestion(agent, userInput) for the agent
\* registered under id
settle(reg, id, userContext, outcome) ==
    [reg EXCEPT ![id] = generateNextQuestion(@, userContext, outcome)]

SpawnInit ==
    /\ sessions = [sid \in Sessions |-> None]
    /\ agents = <<>>
    /\ store = <<>>
    /\ nextSnap = 1
    /\ calls = 0
    /\ faults = 0
    /\ last = NoCall
    /\ clock = 0
    /\ cache = [k \in CacheKeys |-> None]
    /\ fb = NoFb
    /\ fbCalls = 0
    /\ primary = "bedrock"
    /\ \E strategy \in SpawnStrategies, score \in SpawnScores, userInput \in StartInputs :
          unit = [ op |-> "spawnAgents", phase |-> "called", strategy |-> strategy,
                   ambiguityScore |-> score, userInput |-> userInput,
                   ids |-> <<>>, pending |-> {}, order |-> <<>>,
                   outcomes |-> <<>>, result |-> <<>> ]

\* the loop that creates and registers the agents, and the start of the
\* question generations
SpawnCreate ==
    /\ unit.op = "spawnAgents" /\ unit.phase = "called"
    /\ LET agentTypes == determineAgentTypes(unit.strategy, unit.ambiguityScore)
           ids == NewIds(agents, Len(agentTypes))
       IN  /\ agents' = agents \o [i \in 1..Len(agentTypes) |-> createAgent(agentTypes[i])]
           /\ unit' = [unit EXCEPT !.phase = "awaiting", !.ids = ids,
                                   !.pending = 1..Len(agentTypes),
                                   !.outcomes = [i \in 1..Len(agentTypes) |-> "none"]]
    /\ UNCHANGED <<sessions, store, nextSnap, calls, faults, last>>
    /\ UNCHANGED cascadeVars

\* the backend call of the i-th agent completes or fails; order lists the
\* calls as they settled
SpawnSettle(i, outcome) ==
    /\ unit.op = "spawnAgents" /\ unit.phase = "awaiting"
    /\ i \in unit.pending
    /\ agents' = settle(agents, unit.ids[i], unit.userInput, outcome)
    /\ unit' = [unit EXCEPT !.pending = @ \ {i}, !.order = Append(@, i),
                            !.outcomes[i] = outcome]
    /\ UNCHANGED <<sessions, store, nextSnap, calls, faults, last>>
    /\ UNCHANGED cascadeVars

\* Promise.all resolves once every generation has settled: spawnAgents
\* returns the array of agents
SpawnReturn ==
    /\ unit.op = "spawnAgents" /\ unit.phase = "awaiting"
    /\ unit.pending = {}
    /\ unit' = [unit EXCEPT !.phase = "returned", !.result = Batch(agents, unit.ids)]
    /\ UNCHANGED <<engineVars, cascadeVars>>

SpawnNext ==
    \/ SpawnCreate
    \/ \E i \in DOMAIN unit.ids, outcome \in QOutcomes : SpawnSettle(i, outcome)
    \/ SpawnReturn

SpecSpawn == SpawnInit /\ [][SpawnNext]_vars

\* --------------------------------------- CacheManager, one await at a time
\* get reads the object from the bucket, tests its age, increments hitCount
\* on its own copy and writes the copy back with set; between the read and
\* the write other invocations run.  Two invocations share the bucket.
CacheProcs == {1, 2}
CacheRequests == { [type |-> t, input |-> "book a flight"] : t \in {"intent", "chain"} }
IdleGet == [ pc |-> "idle", cacheKey |-> <<>>, entry |-> None ]
NoGet == [ outcome |-> "none", proc |-> 0, cacheKey |-> <<>>, now |-> 0,
           found |-> None, entry |-> None ]

CacheInit ==
    /\ sessions = [sid \in Sessions |-> None]
    /\ agents = <<>>
    /\ store = <<>>
    /\ nextSnap = 1
    /\ calls = 0
    /\ faults = 0
    /\ last = NoCall
    /\ clock = 0
    /\ cache = [k \in CacheKeys |-> None]
    /\ fb = NoFb
    /\ fbCalls = 0
    /\ primary = "bedrock"
    /\ unit = [ op |-> "cache", procs |-> [p \in CacheProcs |-> IdleGet],
                gets |-> [k \in CacheKeys |-> 0], got |-> NoGet ]

\* cacheResponse(request, response, llmBackend); gets counts the successful
\* gets of a key since its entry was created
CacheResponse(request, setOk) ==
    /\ fbCalls < MaxFbCalls
    /\ fbCalls' = fbCalls + 1
    /\ IF setOk
       THEN /\ cache' = cacheResponse(cache, request, "classified", "bedrock", Now)
            /\ unit' = [unit EXCEPT !.gets[generateCacheKey(request)] = 0]
       ELSE UNCHANGED <<cache, unit>>
    /\ UNCHANGED <<clock, fb, primary>>
    /\ UNCHANGED engineVars

\* get(cacheKey) up to `await this.set(entry)`: the read of the object, the
\* age test at Date.now(), and hitCount++ on the copy
CacheGetRead(p, cacheKey, getOk) ==
    /\ fbCalls < MaxFbCalls
    /\ unit.procs[p].pc = "idle"
    /\ fbCalls' = fbCalls + 1
    /\ LET done(outcome) ==
               [unit EXCEPT !.got = [ outcome |-> outcome, proc |-> p,
                                      cacheKey |-> cacheKey, now |-> Now,
                                      found |-> IF getOk THEN cache[cacheKey] ELSE None,
                                      entry |-> None ]]
       IN  IF ~getOk THEN unit' = done("threw")
           ELSE IF ~IsSome(cache[cacheKey]) THEN unit' = done("miss")
           ELSE IF expired(Val(cache[cacheKey]), Now) THEN unit' = done("miss")
           ELSE unit' = [unit EXCEPT
                   !.procs[p] = [ pc |-> "set", cacheKey |-> cacheKey,
                                  entry |-> Some([Val(cache[cacheKey]) EXCEPT
                                                     !.hitCount = @ + 1]) ],
                   !.got = [ outcome |-> "reading", proc |-> p, cacheKey |-> cacheKey,
                             now |-> Now, found |-> cache[cacheKey], entry |-> None ]]
    /\ UNCHANGED <<clock, cache, fb, primary>>
    /\ UNCHANGED engineVars

\* the rest of get: set(entry) and the return of the entry
CacheGetSet(p, setOk) ==
    /\ unit.procs[p].pc = "set"
    /\ LET mine == unit.procs[p] IN
       IF setOk
       THEN /\ cache' = [cache EXCEPT ![mine.cacheKey] = mine.entry]
            /\ unit' = [unit EXCEPT !.procs[p] = IdleGet,
                                    !.gets[mine.cacheKey] = @ + 1,
                                    !.got = [ outcome |-> "hit", proc |-> p,
                                              cacheKey |-> mine.cacheKey, now |-> Now,
                                              found |-> None, entry |-> mine.entry ]]
       ELSE /\ cache' = cache
            /\ unit' = [unit EXCEPT !.procs[p] = IdleGet,
                                    !.got = [ outcome |-> "threw", proc |-> p,
                                              cacheKey |-> mine.cacheKey, now |-> Now,
                                              found |-> None, entry |-> None ]]
    /\ UNCHANGED <<clock, fb, fbCalls, primary>>
    /\ UNCHANGED engineVars

CacheNext ==
    \/ \E request \in CacheRequests, setOk \in BOOLEAN : CacheResponse(request, setOk)
    \/ \E p \in CacheProcs, request \in CacheRequests, getOk \in BOOLEAN :
          CacheGetRead(p, generateCacheKey(request), getOk)
    \/ \E p \in CacheProcs, setOk \in BOOLEAN : CacheGetSet(p, setOk)
    \/ Tick

SpecCache == CacheInit /\ [][CacheNext]_vars

\* ------------------------------------------------------- retryWithBackoff
MaxAttempts == 3     \* the largest maxAttempts of a retry configuration
RetryConfigs ==
    { [ maxAttempts |-> n, initialDelay |-> 1000, maxDelay |-> d, backoffMultiplier |-> 2 ] :
        n \in 0..MaxAttempts, d \in {1500, 10000} }

\* what fn() does in one call: it resolves, or it rejects with an error whose
\* retryable property is false, true or absent
FnOutcomes == {"ok", "retryable false", "retryable true", "retryable absent"}
\* Math.random(), in hundredths
Randoms == {0, 50, 99}

RECURSIVE Pow(_, _)
Pow(b, n) == IF n = 0 THEN 1 ELSE b * Pow(b, n - 1)

\* variant: the multiplier is applied once more
backoffDelayCompounding(config, attempt) ==
    Min(config.initialDelay * Pow(config.backoffMultiplier, attempt), config.maxDelay)

\* Math.min(delay * Math.pow(backoffMultiplier, attempt - 1), maxDelay);
\* delay stays config.initialDelay
backoffDelay(config, attempt) ==
    Min(config.initialDelay * Pow(config.backoffMultiplier, attempt - 1), config.maxDelay)

\* addJitter, in hundredths of a millisecond
addJitter(delay, random) == delay * (50 + random \div 2)

RetryInit ==
    /\ sessions = [sid \in Sessions |-> None]
    /\ agents = <<>>
    /\ store = <<>>
    /\ nextSnap = 1
    /\ calls = 0
    /\ faults = 0
    /\ last = NoCall
    /\ clock = 0
    /\ cache = [k \in CacheKeys |-> None]
    /\ fb = NoFb
    /\ fbCalls = 0
    /\ primary = "bedrock"
    /\ \E config \in RetryConfigs :
          unit = [ op |-> "retryWithBackoff", phase |-> "loop", config |-> config,
                   attempt |-> 1, fnCalls |-> <<>>, lastError |-> None,
                   waits |-> <<>>, thrown |-> None ]

\* one pass of the loop body: the call of fn and, when it rejects, the catch
\* block up to the return, the throw or the start of the sleep
RetryAttempt(outcome, random) ==
    /\ unit.op = "retryWithBackoff" /\ unit.phase = "loop"
    /\ unit.attempt <= unit.config.maxAttempts
    /\ LET called == [unit EXCEPT !.fnCalls = Append(@, outcome)] IN
       IF outcome = "ok" THEN unit' = [called EXCEPT !.phase = "returned"]
       ELSE LET caught == [called EXCEPT !.lastError = Some(outcome)] IN
            IF outcome = "retryable false"
            THEN unit' = [caught EXCEPT !.phase = "threw", !.thrown = Some(outcome)]
            ELSE IF unit.attempt >= unit.config.maxAttempts
            THEN unit' = [caught EXCEPT !.phase = "threw", !.thrown = Some(outcome)]
            ELSE LET backoff == backoffDelay(unit.config, unit.attempt) IN
                 unit' = [caught EXCEPT
                            !.phase = "sleeping",
                            !.waits = Append(@, [ backoff |-> backoff,
                                                  jittered |-> addJitter(backoff, random) ])]
    /\ UNCHANGED <<engineVars, cascadeVars>>

\* the timer of sleep fires: attempt++
RetryWake ==
    /\ unit.op = "retryWithBackoff" /\ unit.phase = "sleeping"
    /\ unit' = [unit EXCEPT !.phase = "loop", !.attempt = @ + 1]
    /\ UNCHANGED <<engineVars, cascadeVars>>

\* the loop condition fails: throw lastError
RetryExit ==
    /\ unit.op = "retryWithBackoff" /\ unit.phase = "loop"
    /\ unit.attempt > unit.config.maxAttempts
    /\ unit' = [unit EXCEPT !.phase = "threw", !.thrown = unit.lastError]
    /\ UNCHANGED <<engineVars, cascadeVars>>

RetryNext ==
    \/ \E outcome \in FnOutcomes, random \in Randoms : RetryAttempt(outcome, random)
    \/ RetryWake
    \/ RetryExit

\* fn settles every time it is called and every timer fires
SpecRetry == RetryInit /\ [][RetryNext]_vars /\ WF_vars(RetryNext)

\* ------------------------------------- analyze, the race with the timer
\* analyze awaits Promise.race([bedrockPromise, timeoutPromise]): the backend
\* call may resolve, reject or stay pending for ever; the timer rejects after
\* 5000 ms.  The promise that settles first decides; the other one settles
\* later, or never, with nobody waiting for it.
RaceReplies == { reply \in AnalyzeReplies : reply.kind # "timeout" }

\* variant: the analysis waits for the backend's reply
afterRaceBackendOnly(first, userInput, reply) == analyze(userInput, reply)

\* what analyze returns once the race is decided
afterRace(first, userInput, reply) ==
    IF first = "timer" THEN analyze(userInput, PlainReply("timeout"))
    ELSE analyze(userInput, reply)

RaceInit ==
    /\ sessions = [sid \in Sessions |-> None]
    /\ agents = <<>>
    /\ store = <<>>
    /\ nextSnap = 1
    /\ calls = 0
    /\ faults = 0
    /\ last = NoCall
    /\ clock = 0
    /\ cache = [k \in CacheKeys |-> None]
    /\ fb = NoFb
    /\ fbCalls = 0
    /\ primary = "bedrock"
    /\ \E userInput \in UserInputs \cup {EmptyText}, reply \in RaceReplies :
          unit = [ op |-> "analyze race", userInput |-> userInput, reply |-> reply,
                   backend |-> "pending", timer |-> "armed", first |-> "none",
                   outcome |-> "awaiting", analysis |-> None ]

\* the promise that settles while analyze is still awaiting decides the race
decide(u, who) ==
    IF u.outcome = "awaiting"
    THEN [u EXCEPT !.first = who, !.outcome = "returned",
                   !.analysis = Some(afterRace(who, u.userInput, u.reply))]
    ELSE u

\* the backend call resolves or rejects
RaceBackendSettles ==
    /\ unit.op = "analyze race" /\ unit.backend = "pending"
    /\ unit' = [decide(unit, "backend") EXCEPT !.backend = "settled"]
    /\ UNCHANGED <<engineVars, cascadeVars>>

\* 5000 ms have passed
RaceTimerFires ==
    /\ unit.op = "analyze race" /\ unit.timer = "armed"
    /\ unit' = [decide(unit, "timer") EXCEPT !.timer = "fired"]
    /\ UNCHANGED <<engineVars, cascadeVars>>

RaceNext == RaceBackendSettles \/ RaceTimerFires

\* the timer fires; the backend call need not ever settle
SpecRace == RaceInit /\ [][RaceNext]_vars /\ WF_vars(RaceTimerFires)

\* ------------------------------------------------------------------ Logger
\* One Logger per process.  log pushes the entry and, when the buffer has
\* reached bufferSize, calls flush; flush copies the buffer, empties it and
\* only then awaits the write to the bucket, so other log calls run while a
\* write is in flight.  Entries are numbered in the order they are logged.
bufferSize == 10
MaxLogCalls == 11     \* log calls in one behaviour
MaxFlushCalls == 2    \* flush calls made at the end of a request

\* variant: flush leaves the buffer as it is
bufferAfterFlushKept(logBuffer) == logBuffer

\* this.logBuffer = []
bufferAfterFlush(logBuffer) == <<>>

\* how flush ends once the write has settled: a failed write is caught and
\* reported on the console
afterSend(sendOk) == IF sendOk THEN "written" ELSE "swallowed"

\* flush() up to `await this.client.send(command)`
flushStart(u, caller) ==
    IF Len(u.logBuffer) = 0 THEN u
    ELSE [u EXCEPT !.batches = Append(@, [ logs |-> u.logBuffer, caller |-> caller,
                                           state |-> "sending" ]),
                   !.logBuffer = bufferAfterFlush(u.logBuffer)]

LogInit ==
    /\ sessions = [sid \in Sessions |-> None]
    /\ agents = <<>>
    /\ store = <<>>
    /\ nextSnap = 1
    /\ calls = 0
    /\ faults = 0
    /\ last = NoCall
    /\ clock = 0
    /\ cache = [k \in CacheKeys |-> None]
    /\ fb = NoFb
    /\ fbCalls = 0
    /\ primary = "bedrock"
    /\ unit = [ op |-> "logger", logBuffer |-> <<>>, logged |-> 0, flushCalls |-> 0,
                batches |-> <<>> ]

\* info / warn / error / logWithMetrics: log(...) up to its await
LogCall ==
    /\ unit.op = "logger" /\ unit.logged < MaxLogCalls
    /\ LET pushed == [unit EXCEPT !.logged = @ + 1,
                                  !.logBuffer = Append(@, unit.logged + 1)]
       IN  unit' = IF Len(pushed.logBuffer) >= bufferSize
                   THEN flushStart(pushed, "log")
                   ELSE pushed
    /\ UNCHANGED <<engineVars, cascadeVars>>

\* flush() called directly
FlushCall ==
    /\ unit.op = "logger" /\ unit.flushCalls < MaxFlushCalls
    /\ unit' = flushStart([unit EXCEPT !.flushCalls = @ + 1], "flush")
    /\ UNCHANGED <<engineVars, cascadeVars>>

\* the write of a batch settles and the flush that sent it returns
SendSettles(i, sendOk) ==
    /\ unit.op = "logger"
    /\ i \in DOMAIN unit.batches /\ unit.batches[i].state = "sending"
    /\ unit' = [unit EXCEPT !.batches[i].state = afterSend(sendOk)]
    /\ UNCHANGED <<engineVars, cascadeVars>>

LogNext ==
    \/ LogCall
    \/ FlushCall
    \/ \E i \in DOMAIN unit.batches, sendOk \in BOOLEAN : SendSettles(i, sendOk)

SpecLog == LogInit /\ [][LogNext]_vars

\* ------------------------------------------------------------ two sessions
\* One engine serving two session ids: the calls of the engine on either id,
\* and container restarts.
TwoSessions == {"s1", "s2"}

IsoInit ==
    /\ sessions = [sid \in TwoSessions |-> None]
    /\ agents = <<>>
    /\ store = <<>>
    /\ nextSnap = 1
    /\ clock = 0
    /\ calls = 0
    /\ faults = 0
    /\ last = NoCall
    /\ cache = [k \in CacheKeys |-> None]
    /\ fb = NoFb
    /\ fbCalls = 0
    /\ primary = "bedrock"
    /\ unit = NoUnit

IsoColdStart ==
    /\ \E sid \in TwoSessions : IsSome(sessions[sid])
    /\ calls < MaxCalls
    /\ calls' = calls + 1
    /\ sessions' = [sid \in TwoSessions |-> None]
    /\ agents' = <<>>
    /\ last' = NoCall
    /\ UNCHANGED <<store, nextSnap, faults>>
    /\ UNCHANGED <<cascadeVars, unitVars>>

IsoNext ==
    \/ \E sid \in TwoSessions, input \in StartInputs : StartSession(sid, input)
    \/ \E sid \in TwoSessions, input \in Responses : ContinueSession(sid, input)
    \/ IsoColdStart

SpecIso == IsoInit /\ [][IsoNext]_vars

\* ---------------------------------- two continueSession calls in one session
\* Two calls of continueSession on a session that is in memory with a batch
\* of agents, taken apart at their awaits: each step of a call runs from one
\* await to the next, and the steps of the two calls interleave freely.

\* processResponse up to its await of extractFindings: the agent, and
\* whether the call goes on after the await
processResponseBegin(agent, userResponse) ==
    IF ~acceptsResponse(agent) THEN [agent |-> agent, awaits |-> FALSE]
    ELSE LET asked == [agent EXCEPT
                         !.conversationHistory =
                             Append(@, [question |-> agent.currentQuestion,
                                        answer |-> userResponse]),
                         !.questionsAsked = @ + 1]
         IN  IF FactsOf(userResponse).noInfo
             THEN [agent |-> [asked EXCEPT !.status = "completed"], awaits |-> FALSE]
             ELSE [agent |-> asked, awaits |-> TRUE]

\* processResponse after that await
processResponseEnd(agent, userResponse) ==
    LET found == [agent EXCEPT !.findings = @ \o FactsOf(userResponse).findings,
                               !.confidence = Min(10, @ + 4)]
    IN  IF shouldComplete(found) THEN [found EXCEPT !.status = "completed"] ELSE found

InterProcs == {1, 2}
\* the batch the session waits with: one or two agents that have answered
\* no question or one
InterStrategies == {"scope", "emotions"}
InterAnswered == {0, 1}
\* the scores the analysis of the response can come to
InterScores == {39, 61}

waitingAgent(type, answered) ==
    LET first == generateNextQuestion(createAgent(type), InVague, "text")
    IN  IF answered = 0 THEN first
        ELSE generateNextQuestion(processResponse(first, InInfo), InInfo, "text")

NoProc ==
    [ pc |-> "idle", input |-> EmptyText, awaiting |-> {}, batch |-> <<>>,
      confidence |-> Fraction(0, 1), score |-> 0, previous |-> 0, snapshotId |-> 0,
      spawned |-> <<>> ]

InterInit ==
    /\ sessions = [sid \in Sessions |-> None]
    /\ agents = <<>>
    /\ store = <<>>
    /\ nextSnap = 1
    /\ clock = 0
    /\ calls = 0
    /\ faults = 0
    /\ last = NoCall
    /\ cache = [k \in CacheKeys |-> None]
    /\ fb = NoFb
    /\ fbCalls = 0
    /\ primary = "bedrock"
    /\ \E strategy \in InterStrategies, answered \in InterAnswered :
          LET types == determineAgentTypes(strategy, 61) IN
          unit = [ op |-> "continueSession twice",
                   registry |-> [i \in 1..Len(types) |-> waitingAgent(types[i], answered)],
                   state |-> [ iteration |-> 1 + answered,
                               status |-> "clarifying",
                               activeSubAgents |-> [i \in 1..Len(types) |-> i],
                               intentSnapshots |-> << [snapshotId |-> 1, previous |-> 0,
                                                       batch |-> <<>>] >>,
                               userMessages |-> <<>> ],
                   nextId |-> 2,
                   proc |-> [p \in InterProcs |-> NoProc] ]

\* const allComplete = ...; if (allComplete) { state.status = 'synthesizing';
\* synthesizeFindings(...) up to its await of the backend } else
\* generateNextQuestions up to its first await
afterResponses(u, p) ==
    LET ids == u.state.activeSubAgents IN
    IF allCompleted(u.registry, ids)
    THEN [u EXCEPT !.state.status = "synthesizing",
                   !.proc[p].pc = "synthesizing",
                   !.proc[p].batch = ids,
                   !.proc[p].confidence =
                       Fraction(SumSeq([i \in 1..Len(ids) |-> u.registry[ids[i]].confidence]),
                                Len(ids))]
    ELSE [u EXCEPT !.proc[p].pc = "asking",
                   !.proc[p].awaiting = Range(ActiveIds(u.registry, ids))]

\* continueSession from its entry to its first await
InterCall(p, userResponse) ==
    /\ unit.op = "continueSession twice"
    /\ unit.proc[p].pc = "idle"
    /\ LET ids == unit.state.activeSubAgents
           active == Range(ActiveIds(unit.registry, ids))
           u1 == [unit EXCEPT !.state.iteration = @ + 1,
                              !.state.userMessages = Append(@, userResponse),
                              !.proc[p].input = userResponse]
       IN  IF wantsToSkip(userResponse)
           THEN unit' = afterResponses(
                    [u1 EXCEPT !.registry =
                        [id \in DOMAIN unit.registry |->
                            IF id \in Range(ids) THEN skipAgent(unit.registry[id])
                            ELSE unit.registry[id]]], p)
           ELSE unit' =
                    [u1 EXCEPT !.registry =
                                   [id \in DOMAIN unit.registry |->
                                       IF id \in active
                                       THEN processResponseBegin(unit.registry[id],
                                                                 userResponse).agent
                                       ELSE unit.registry[id]],
                               !.proc[p].pc = "responding",
                               !.proc[p].awaiting =
                                   { id \in active :
                                       processResponseBegin(unit.registry[id],
                                                            userResponse).awaits }]
    /\ UNCHANGED <<engineVars, cascadeVars>>

\* the processResponse calls end and Promise.all resolves
InterResponded(p) ==
    /\ unit.op = "continueSession twice"
    /\ unit.proc[p].pc = "responding"
    /\ unit' = afterResponses(
                   [unit EXCEPT !.registry =
                                    [id \in DOMAIN unit.registry |->
                                        IF id \in unit.proc[p].awaiting
                                        THEN processResponseEnd(unit.registry[id],
                                                                unit.proc[p].input)
                                        ELSE unit.registry[id]],
                                !.proc[p].awaiting = {}], p)
    /\ UNCHANGED <<engineVars, cascadeVars>>

\* generateNextQuestions ends: each agent that was active has its question
InterAsked(p) ==
    /\ unit.op = "continueSession twice"
    /\ unit.proc[p].pc = "asking"
    /\ unit' = [unit EXCEPT !.registry =
                                [id \in DOMAIN unit.registry |->
                                    IF id \in unit.proc[p].awaiting
                                    THEN generateNextQuestion(unit.registry[id],
                                                              unit.proc[p].input, "text")
                                    ELSE unit.registry[id]],
                            !.proc[p].awaiting = {},
                            !.proc[p].pc = "returned"]
    /\ UNCHANGED <<engineVars, cascadeVars>>

\* synthesizeFindings and analyze end; the latest snapshot is read and
\* createSnapshot runs up to its await of getSnapshot
InterAnalyzed(p, score) ==
    /\ unit.op = "continueSession twice"
    /\ unit.proc[p].pc = "synthesizing"
    /\ LET snaps == unit.state.intentSnapshots IN
       unit' = [unit EXCEPT !.proc[p].pc = "snapshotting",
                            !.proc[p].score = score,
                            !.proc[p].previous = snaps[Len(snaps)].snapshotId,
                            !.proc[p].snapshotId = unit.nextId,
                            !.nextId = @ + 1]
    /\ UNCHANGED <<engineVars, cascadeVars>>

\* createSnapshot ends: the snapshot is pushed, and the call returns 'ready'
\* or runs spawnAgents up to its await
InterSnapshotted(p) ==
    /\ unit.op = "continueSession twice"
    /\ unit.proc[p].pc = "snapshotting"
    /\ LET me == unit.proc[p]
           u1 == [unit EXCEPT !.state.intentSnapshots =
                                  Append(@, [snapshotId |-> me.snapshotId,
                                             previous |-> me.previous,
                                             batch |-> me.batch])]
           types == determineAgentTypes("scope", me.score)
           n == Len(unit.registry)
       IN  IF isReady(me.confidence, me.score) \/ wantsToSkip(me.input)
           THEN unit' = [u1 EXCEPT !.state.status = "ready", !.proc[p].pc = "returned"]
           ELSE unit' = [u1 EXCEPT !.state.status = "clarifying",
                                   !.registry = @ \o [i \in 1..Len(types) |->
                                                        createAgent(types[i])],
                                   !.proc[p].spawned = [i \in 1..Len(types) |-> n + i],
                                   !.proc[p].pc = "spawning"]
    /\ UNCHANGED <<engineVars, cascadeVars>>

\* spawnAgents ends: the new agents have their questions and become the batch
InterSpawned(p) ==
    /\ unit.op = "continueSession twice"
    /\ unit.proc[p].pc = "spawning"
    /\ unit' = [unit EXCEPT !.registry =
                                [id \in DOMAIN unit.registry |->
                                    IF id \in Range(unit.proc[p].spawned)
                                    THEN generateNextQuestion(unit.registry[id],
                                                              unit.proc[p].input, "text")
                                    ELSE unit.registry[id]],
                            !.state.activeSubAgents = unit.proc[p].spawned,
                            !.proc[p].pc = "returned"]
    /\ UNCHANGED <<engineVars, cascadeVars>>

InterNext ==
    \/ \E p \in InterProcs, userResponse \in Responses : InterCall(p, userResponse)
    \/ \E p \in InterProcs : InterResponded(p)
    \/ \E p \in InterProcs : InterAsked(p)
    \/ \E p \in InterProcs, score \in InterScores : InterAnalyzed(p, score)
    \/ \E p \in InterProcs : InterSnapshotted(p)
    \/ \E p \in InterProcs : InterSpawned(p)

SpecInter == InterInit /\ [][InterNext]_vars

\* -------------------------------------------------------------- HTTP layer
\* The 'generate' and 'execute' actions of the Lambda handler, called between
\* the calls of the engine.  body.sessionId and body.task are given or not.
HttpSessionIds == {None, Some("s1"), Some("s0")}
HttpTasks == {None, Some("task")}

\* getSession
getSession(ss, sessionId) == IF sessionId \in DOMAIN ss THEN ss[sessionId] ELSE None

\* generateAgent: buildGenerationPrompt dereferences the intent before the
\* try; with an intent, the backend's specification or the fallback agent
generateAgent(extractedIntent) == IF IsSome(extractedIntent) THEN "spec" ELSE "threw"

Answer(action, state, statusCode, generated, executed) ==
    [ op |-> "handler", action |-> action,
      status |-> IF IsSome(state) THEN Some(Val(state).status) ELSE None,
      statusCode |-> statusCode, generated |-> generated, executed |-> executed ]

\* state.intentSnapshots[state.intentSnapshots.length - 1].extractedIntent,
\* handed to generateAgent; a TypeError ends in the handler's catch
generatedFrom(state) ==
    LET snaps == Val(state).intentSnapshots IN
    IF snaps = <<>> THEN "threw" ELSE generateAgent(snaps[Len(snaps)].extractedIntent)

handleGenerate(ss, sessionId) ==
    IF ~IsSome(sessionId) THEN Answer("generate", None, 400, FALSE, FALSE)
    ELSE LET state == getSession(ss, Val(sessionId)) IN
         IF ~IsSome(state) THEN Answer("generate", state, 404, FALSE, FALSE)
         ELSE IF Val(state).status # "ready"
         THEN Answer("generate", state, 400, FALSE, FALSE)
         ELSE IF generatedFrom(state) = "threw"
         THEN Answer("generate", state, 500, FALSE, FALSE)
         ELSE Answer("generate", state, 200, TRUE, FALSE)

handleExecute(ss, sessionId, task) ==
    IF ~IsSome(sessionId) \/ ~IsSome(task) THEN Answer("execute", None, 400, FALSE, FALSE)
    ELSE LET state == getSession(ss, Val(sessionId)) IN
         IF ~IsSome(state) THEN Answer("execute", state, 404, FALSE, FALSE)
         ELSE IF generatedFrom(state) = "threw"
         THEN Answer("execute", state, 500, FALSE, FALSE)
         ELSE Answer("execute", state, 200, TRUE, TRUE)

HttpGenerate(sessionId) ==
    /\ unit' = handleGenerate(sessions, sessionId)
    /\ UNCHANGED <<engineVars, cascadeVars>>

HttpExecute(sessionId, task) ==
    /\ unit' = handleExecute(sessions, sessionId, task)
    /\ UNCHANGED <<engineVars, cascadeVars>>

HttpNext ==
    \/ \E sid \in Sessions, input \in StartInputs : StartSession(sid, input)
    \/ \E sid \in Sessions, input \in Responses : ContinueSession(sid, input)
    \/ ColdStart
    \/ \E sessionId \in HttpSessionIds : HttpGenerate(sessionId)
    \/ \E sessionId \in HttpSessionIds, task \in HttpTasks : HttpExecute(sessionId, task)

SpecHttp == Init /\ [][HttpNext]_vars

\* ------------------------------------------------------------ properties
\* the session the last call was about
LastState == Val(sessions[last.sid])
Returned == last.outcome = "returned"
\* the last call was startSession, called directly or by continueSession
WasStart == last.op = "startSession" \/ (last.op = "continueSession" /\ last.delegated)
\* the last call was continueSession on a session it found
WasContinue == last.op = "continueSession" /\ ~last.delegated

\* C1: when startSession returns, an ambiguity score above 60 has left the
\* session 'clarifying' with needsClarification true and at least one active
\* sub-agent; a score of 60 or less has left it 'ready' with
\* needsClarification false, no sub-agent and a goal echo.
C1_StartThreshold ==
    (WasStart /\ Returned) =>
        IF last.newScore > 60
        THEN /\ LastState.status = "clarifying"
             /\ last.needsClarification
             /\ \E i \in DOMAIN LastState.activeSubAgents :
                    agents[LastState.activeSubAgents[i]].status = "active"
        ELSE /\ LastState.status = "ready"
             /\ ~last.needsClarification
             /\ LastState.activeSubAgents = <<>>
             /\ IsSome(LastState.currentGoalEcho)

\* startSession has returned on the score 61, just above the threshold
C1_Witness ==
    /\ last.op = "startSession" /\ Returned
    /\ last.newScore = 61
    /\ LastState.status = "clarifying"

\* C2: when continueSession returns after a response that is no skip phrase
\* and that left every sub-agent of the batch completed, the session is
\* 'ready' with needsClarification false exactly when the synthesized
\* confidence is above 0.7 and the new score is below 40; otherwise it is
\* 'clarifying' with needsClarification true and a fresh, non-empty batch of
\* sub-agents that have asked nothing yet.
C2_ReadyRule ==
    (WasContinue /\ Returned /\ last.allComplete /\ last.input # InSkip) =>
        IF last.confidence.num > 7 * last.confidence.den /\ last.newScore < 40
        THEN LastState.status = "ready" /\ ~last.needsClarification
        ELSE /\ LastState.status = "clarifying"
             /\ last.needsClarification
             /\ LastState.activeSubAgents # <<>>
             /\ \A i \in DOMAIN LastState.activeSubAgents :
                  LET id == LastState.activeSubAgents[i] IN
                  /\ id > last.registryBefore
                  /\ agents[id].status = "active"
                  /\ agents[id].questionsAsked = 0

\* continueSession has ended a session as 'ready' by the rule: confidence
\* 0.8 and score 39
C2_Witness ==
    /\ WasContinue /\ Returned /\ last.allComplete /\ last.input # InSkip
    /\ last.confidence.num > 7 * last.confidence.den
    /\ last.newScore = 39
    /\ LastState.status = "ready"

\* C3: when continueSession returns after a skip phrase given while at
\* least one sub-agent was active, every sub-agent that was active is
\* completed and the session is 'ready' with needsClarification false,
\* whatever the confidence and the score.
C3_SkipEndsClarification ==
    (WasContinue /\ Returned /\ last.input = InSkip /\ last.activeBefore # {}) =>
        /\ \A id \in last.activeBefore : agents[id].status = "completed"
        /\ LastState.status = "ready"
        /\ ~last.needsClarification

\* a skip has ended a session whose confidence and score would not have
C3_Witness ==
    /\ WasContinue /\ Returned /\ last.input = InSkip /\ last.activeBefore # {}
    /\ ~(last.confidence.num > 7 * last.confidence.den /\ last.newScore < 40)
    /\ LastState.status = "ready"

\* C4: when continueSession returns for a session that was neither in
\* memory nor in the store, it has done what startSession does with the
\* response as first input: iteration 0, exactly one snapshot, the status
\* given by the score-above-60 rule, and no session-not-found error.
C4_UnknownSessionStarts ==
    (last.op = "continueSession" /\ last.loaded /\ last.storedBefore = 0 /\ Returned) =>
        /\ LastState.iteration = 0
        /\ Len(LastState.intentSnapshots) = 1
        /\ LastState.conversationHistory[1] = UserMsg(last.input)
        /\ LastState.status = (IF last.newScore > 60 THEN "clarifying" ELSE "ready")
        /\ last.needsClarification = (last.newScore > 60)
        /\ last.response \in {"clarification", "ready to generate"}

\* continueSession has started a session for an id nobody knew
C4_Witness ==
    /\ last.op = "continueSession" /\ last.loaded /\ last.storedBefore = 0 /\ Returned
    /\ last.delegated
    /\ LastState.iteration = 0

\* C5: whenever a session is registered and no startSession is in progress,
\* its intentSnapshots is non-empty.
C5_RegisteredHasSnapshot ==
    \A sid \in Sessions :
        IsSome(sessions[sid]) => Val(sessions[sid]).intentSnapshots # <<>>

\* C6: every registered sub-agent has asked at most maxQuestions questions,
\* in every state that spawnAgents, processResponse and continueSession
\* calls reach, processResponse on a completed agent included.
C6_QuestionsBounded ==
    \A id \in DOMAIN agents : agents[id].questionsAsked <= agents[id].maxQuestions

\* C7: FallbackHandler.handle returns (it never throws) a response with a
\* strategy; requiresUserInput is true exactly for the strategy 'manual', and
\* then the alternate-backend, cache and static tiers have each failed or
\* been skipped.
C7_HandleTotal ==
    fb.handled =>
        /\ fb.h.outcome = "returned"
        /\ fb.h.strategy \in {"alternative_backend", "cache", "static_flow", "manual"}
        /\ IsSome(fb.h.response)
        /\ fb.h.requiresUserInput = (fb.h.strategy = "manual")
        /\ fb.h.requiresUserInput =>
              /\ Len(fb.h.tiers) = 4
              /\ \A i \in 1..3 : fb.h.tiers[i].outcome \in {"failed", "skipped"}

\* C8: handle goes through its tiers in the order alternate backend, cache,
\* static response, manual input; every tier before the last one it tried
\* failed or was skipped, the last one succeeded, and the strategy returned
\* is that last tier.
C8_TierOrder ==
    (fb.handled /\ fb.h.outcome = "returned") =>
        LET t == fb.h.tiers
            n == Len(t)
        IN  /\ n \in 1..4
            /\ \A i \in 1..n :
                 t[i].tier = <<"alternative_backend", "cache", "static_flow", "manual">>[i]
            /\ \A i \in 1..(n - 1) : t[i].outcome \in {"failed", "skipped"}
            /\ t[n].outcome = "ok"
            /\ fb.h.strategy = t[n].tier

\* handle has returned the static response after the alternate backend and
\* the cache had both failed
C8_Witness ==
    /\ fb.handled /\ fb.h.outcome = "returned"
    /\ fb.h.strategy = "static_flow"
    /\ Len(fb.h.tiers) = 3
    /\ fb.h.tiers[1].outcome = "failed"
    /\ fb.h.tiers[2].outcome = "failed"

\* C9: the backend that tier 1 invokes is none of the backends already
\* attempted for the request, whichever backend is the primary one.
C9_AlternateIsNew ==
    (fb.handled /\ IsSome(fb.h.altBackend)) => ~InSeq(fb.attempted, Val(fb.h.altBackend))

\* C10: after a retryable error of its backend call, a site returns what
\* handle produced and throws nothing.
C10_RetryableRouted ==
    (fb.primaryError \in RetryableErrors) => (fb.outcome = "returned" /\ fb.handled)

\* C11: startSession and continueSession never throw: every call ends by
\* returning a result with a response text that is not empty, whatever the
\* backend and the snapshot store do.
C11_AlwaysResponds ==
    (last.op # "none") => (Returned /\ last.response # "")

\* the status edges of the session state machine, and what can follow a
\* status along them in any number of steps
StatusEdges ==
    { <<"detecting", "clarifying">>, <<"clarifying", "synthesizing">>,
      <<"synthesizing", "ready">>, <<"ready", "completed">>,
      <<"synthesizing", "clarifying">> }
Statuses == {"detecting", "clarifying", "synthesizing", "ready", "completed"}
RECURSIVE FollowersIn(_, _)
FollowersIn(from, n) ==
    IF n = 0 THEN from
    ELSE FollowersIn(from \cup { e[2] : e \in { d \in StatusEdges : d[1] \in from } }, n - 1)
Followers(status) == FollowersIn({status}, Cardinality(Statuses))

\* C12: a continueSession call on a session held in memory leaves it in a
\* status that follows the status it found along detecting -> clarifying ->
\* synthesizing -> ready -> completed and synthesizing -> clarifying; a
\* session found 'ready' is not left 'synthesizing' or 'clarifying'.
C12_StatusOrder ==
    [][ \A sid \in Sessions :
          ( /\ calls' = calls + 1
            /\ last'.op = "continueSession" /\ last'.sid = sid
            /\ ~last'.delegated /\ ~last'.loaded
            /\ IsSome(sessions[sid]) /\ IsSome(sessions'[sid]) )
          => Val(sessions'[sid]).status \in Followers(Val(sessions[sid]).status) ]_vars

\* C13: the drift vector of a stored snapshot names, as 'from', a snapshot of
\* the same session that was stored before it; the first snapshot stored for
\* a session has no drift vector; the snapshots a session holds in memory
\* obey the same rule against the store.
C13_DriftRefersBack ==
    \A sid \in Sessions :
       LET s == StoredOf(sid) IN
       /\ \A i \in DOMAIN s :
             /\ i = 1 => ~IsSome(s[i].driftVector)
             /\ IsSome(s[i].driftVector) =>
                   \E j \in 1..(i - 1) : s[j].snapshotId = Val(s[i].driftVector).from
       /\ IsSome(sessions[sid]) =>
             \A k \in DOMAIN Val(sessions[sid]).intentSnapshots :
                LET m == Val(sessions[sid]).intentSnapshots[k] IN
                IsSome(m.driftVector) =>
                   \E j \in DOMAIN s : /\ s[j].snapshotId = Val(m.driftVector).from
                                       /\ s[j].snapshotId < m.snapshotId

\* a continueSession call has stored a second snapshot with a drift vector
\* that names the first
C13_Witness ==
    /\ WasContinue /\ Returned
    /\ Len(StoredOf(last.sid)) >= 2
    /\ LET s == StoredOf(last.sid) IN
       /\ IsSome(s[Len(s)].driftVector)
       /\ Val(s[Len(s)].driftVector).from = s[Len(s) - 1].snapshotId

\* a is what is left of b after dropping some of its elements
IsSubsequence(a, b) ==
    \E f \in [1..Len(a) -> 1..Len(b)] :
       /\ \A i \in 1..Len(a) : b[f[i]] = a[i]
       /\ \A i \in 1..(Len(a) - 1) : f[i] < f[i + 1]

\* C14: snapshots are append-only.  No step removes, changes or reorders a
\* snapshot the table holds for a session; no startSession or continueSession
\* call removes, changes or reorders a snapshot of the session's
\* intentSnapshots; and what getIntentMap returns is in non-decreasing
\* timestamp order.
C14_AppendOnly ==
    [][ \A sid \in Sessions :
          /\ IsSubsequence(StoredOf(sid), StoredIn(store', sid))
          /\ ( /\ calls' = calls + 1 /\ last'.op # "none" /\ last'.sid = sid
               /\ IsSome(sessions[sid]) /\ IsSome(sessions'[sid]) )
             => IsSubsequence(Val(sessions[sid]).intentSnapshots,
                              Val(sessions'[sid]).intentSnapshots)
          /\ \A r \in getSessionSnapshots(sid, TRUE) : IsTimeSorted(r) ]_vars

\* the fields of an intent that calculateDrift compares
DriftFields(snapshot) == Val(snapshot.extractedIntent)
\* the elements of the list curr that the list prev does not hold
AddedTo(prev, curr) ==
    LET p == IF prev = None THEN <<>> ELSE Val(prev)
        c == IF curr = None THEN <<>> ELSE Val(curr)
    IN  Cardinality({ i \in DOMAIN c : \A j \in DOMAIN p : p[j] # c[i] })
\* min(1, 0.4 + 0.2 + 0.15 n + 0.15 m + delta / 200), in units of 1/200
ExpectedMagnitude(previous, current) ==
    LET p == DriftFields(previous)
        c == DriftFields(current)
        delta == IF current.ambiguityScore >= previous.ambiguityScore
                 THEN current.ambiguityScore - previous.ambiguityScore
                 ELSE previous.ambiguityScore - current.ambiguityScore
        sum == (IF p.goal # c.goal THEN 80 ELSE 0)
             + (IF p.scope # c.scope THEN 40 ELSE 0)
             + 30 * AddedTo(p.constraints, c.constraints)
             + 30 * AddedTo(p.successCriteria, c.successCriteria)
             + (IF delta > 20 THEN delta ELSE 0)
    IN  IF sum > 200 THEN 200 ELSE sum
\* current with one more field changed against previous, the others kept
OneMoreChanged(previous, current) ==
    LET p == DriftFields(previous)
        c == DriftFields(current)
        with(intent) == [current EXCEPT !.extractedIntent = Some(intent)]
        fresh(prev) == { x \in DriftItems :
                           \A j \in DOMAIN OrEmpty(prev) : OrEmpty(prev)[j] # x }
        delta == Abs(current.ambiguityScore - previous.ambiguityScore)
    IN     (IF c.goal = p.goal THEN { with([c EXCEPT !.goal = BackendGoal]) } ELSE {})
      \cup (IF c.scope = p.scope THEN { with([c EXCEPT !.scope = BackendScope]) } ELSE {})
      \cup { with([c EXCEPT !.constraints = Some(Append(OrEmpty(@), x))]) :
                x \in fresh(p.constraints) }
      \cup { with([c EXCEPT !.successCriteria = Some(Append(OrEmpty(@), x))]) :
                x \in fresh(p.successCriteria) }
      \cup (IF delta > 20 THEN {}
            ELSE { [current EXCEPT !.ambiguityScore = s] :
                     s \in { t \in DriftScores : Abs(t - previous.ambiguityScore) > 20 } })

\* C15: the drift magnitude is min(1, 0.4 for a changed goal + 0.2 for a
\* changed scope + 0.15 for each added constraint + 0.15 for each added
\* success criterion + delta/200 for a score delta above 20); it lies in
\* [0,1]; and it does not decrease when one more field is changed.
C15_DriftMagnitude ==
    (unit.op = "calculateDrift") =>
        /\ unit.drift.magnitude = ExpectedMagnitude(unit.previous, unit.current)
        /\ unit.drift.magnitude >= 0 /\ unit.drift.magnitude <= 200
        /\ \A c2 \in OneMoreChanged(unit.previous, unit.current) :
              calculateDrift(unit.previous, c2).magnitude >= unit.drift.magnitude

\* every field changed at once: the sum 0.4 + 0.2 + 0.3 + 0.3 + 0.5 is cut to 1
C15_Witness ==
    /\ unit.op = "calculateDrift"
    /\ unit.drift.magnitude = 200
    /\ DriftFields(unit.current).goal # DriftFields(unit.previous).goal
    /\ DriftFields(unit.current).scope # DriftFields(unit.previous).scope
    /\ AddedTo(DriftFields(unit.previous).constraints,
               DriftFields(unit.current).constraints) = 2
    /\ AddedTo(DriftFields(unit.previous).successCriteria,
               DriftFields(unit.current).successCriteria) = 2
    /\ unit.current.ambiguityScore = 100 /\ unit.previous.ambiguityScore = 50

\* C16: whatever the backend answers (a JSON reply with any numeric score or
\* none, text that cannot be parsed, no text, an error, a timeout), the score
\* that analyze returns lies in 0..100.
C16_ScoreInRange ==
    (unit.op = "analyze") => (unit.analysis.score >= 0 /\ unit.analysis.score <= 100)

\* a reply with the score 101 has been analysed
C16_Witness ==
    /\ unit.op = "analyze"
    /\ unit.reply.kind = "json" /\ unit.reply.score = Some(101)
    /\ unit.analysis.score = 100

\* C17: analyze returns when the backend call fails, times out or carries no
\* text, and what it returns is the heuristic analysis of the user's input:
\* the heuristic score and signals, the reasoning 'Fallback analysis based on
\* simple heuristics', and the strategy 'multi' for a score above 70, else
\* 'scope'.
C17_FailureIsHeuristic ==
    (unit.op = "analyze" /\ unit.reply.kind \in {"error", "timeout", "notext"}) =>
        /\ unit.outcome = "returned"
        /\ unit.analysis.score = calculateSimpleAmbiguityScore(CharsOf(unit.userInput))
        /\ unit.analysis.signals = detectSimpleSignals(CharsOf(unit.userInput))
        /\ unit.analysis.reasoning = "Fallback analysis based on simple heuristics"
        /\ unit.analysis.recommendedStrategy =
              (IF unit.analysis.score > 70 THEN "multi" ELSE "scope")

\* the backend timed out on 'build something': heuristic score 100, 'multi'
C17_Witness ==
    /\ unit.op = "analyze" /\ unit.reply.kind = "timeout"
    /\ unit.userInput = InVague
    /\ unit.analysis.score = 100
    /\ unit.analysis.recommendedStrategy = "multi"

\* C18: text that cannot be parsed is treated as a failed call: analyze
\* returns the analysis it returns for the same input when the call fails,
\* the heuristic analysis of that input.
C18_UnparsableAsFailure ==
    (unit.op = "analyze" /\ unit.reply.kind = "unparsable") =>
        /\ unit.analysis = analyze(unit.userInput, PlainReply("error"))
        /\ unit.analysis.score = calculateSimpleAmbiguityScore(CharsOf(unit.userInput))
        /\ unit.analysis.signals = detectSimpleSignals(CharsOf(unit.userInput))

\* C19: for a JSON reply that carries a score, analyze returns that score cut
\* to 0..100 (0 to 100 unchanged, less becomes 0, more becomes 100), and every
\* signal field the reply leaves out comes back as an empty list.
C19_ClampAndFill ==
    (unit.op = "analyze" /\ unit.reply.kind = "json" /\ IsSome(unit.reply.score)) =>
        LET v == Val(unit.reply.score) IN
        /\ unit.analysis.score = (IF v < 0 THEN 0 ELSE IF v > 100 THEN 100 ELSE v)
        /\ \A f \in {"hedgingLanguage", "vagueTerms", "emotionalMarkers"} :
              IsSome(unit.analysis.signals[f])
        /\ unit.reply.signals = "absent" =>
              \A f \in {"hedgingLanguage", "vagueTerms", "emotionalMarkers"} :
                 unit.analysis.signals[f] = Some(<<>>)
        /\ unit.reply.signals = "partial" =>
              unit.analysis.signals.emotionalMarkers = Some(<<>>)

\* C20: processResponse with the response 'Skip' on an active agent that has
\* a question pending completes the agent at once: the question and the
\* answer join its history, questionsAsked grows by one, the status becomes
\* 'completed', and the findings, the confidence and every other field stay
\* as they were.
C20_NoInfoCompletes ==
    [][ ( /\ calls' = calls + 1
          /\ last'.op = "processResponse" /\ last'.input = InSkip
          /\ last'.agentId \in DOMAIN agents
          /\ agents[last'.agentId].status = "active"
          /\ agents[last'.agentId].currentQuestion \notin {Undefined, ""} )
        => LET a == agents[last'.agentId] IN
           agents'[last'.agentId] =
              [a EXCEPT !.status = "completed",
                        !.questionsAsked = @ + 1,
                        !.conversationHistory =
                            Append(@, [question |-> a.currentQuestion,
                                       answer |-> InSkip])] ]_vars

\* 'Skip' was the first answer given to an agent: it is completed with one
\* question asked and no finding
C20_Witness ==
    /\ last.op = "processResponse" /\ last.input = InSkip
    /\ last.agentId \in DOMAIN agents
    /\ agents[last.agentId].status = "completed"
    /\ agents[last.agentId].questionsAsked = 1
    /\ Len(agents[last.agentId].conversationHistory) = 1
    /\ agents[last.agentId].findings = <<>>
    /\ agents[last.agentId].confidence = 0

\* C21: processResponse with an informative (not no-info) response on an
\* active agent that has a question pending leaves the agent completed
\* exactly when questionsAsked has reached maxQuestions or the confidence is
\* above 0.8: after the first such response the agent is still active with
\* questionsAsked 1, confidence 0.4 and at least one finding, and after the
\* second one it is completed.
C21_CompletesAtCap ==
    [][ ( /\ calls' = calls + 1
          /\ last'.op = "processResponse"
          /\ ~FactsOf(last'.input).noInfo
          /\ last'.agentId \in DOMAIN agents
          /\ agents[last'.agentId].status = "active"
          /\ agents[last'.agentId].currentQuestion \notin {Undefined, ""} )
        => LET a == agents[last'.agentId]
               b == agents'[last'.agentId]
           IN  /\ b.questionsAsked = a.questionsAsked + 1
               /\ b.confidence = Min(10, a.confidence + 4)
               /\ (b.status = "completed")
                     <=> (b.questionsAsked >= maxQuestions \/ b.confidence > 8)
               /\ b.status \in {"active", "completed"}
               /\ a.questionsAsked = 0
                     => /\ b.status = "active"
                        /\ b.questionsAsked = 1
                        /\ b.confidence = 4
                        /\ Len(b.findings) >= 1
               /\ (a.questionsAsked = 1 /\ a.confidence = 4)
                     => b.status = "completed" ]_vars

\* an agent was completed by its second informative answer, with confidence
\* 0.8 and the findings of both answers
C21_Witness ==
    /\ last.op = "processResponse" /\ last.input = InInfo
    /\ last.agentId \in DOMAIN agents
    /\ agents[last.agentId].status = "completed"
    /\ agents[last.agentId].questionsAsked = 2
    /\ agents[last.agentId].confidence = 8
    /\ Len(agents[last.agentId].conversationHistory) = 2
    /\ \A i \in 1..2 : agents[last.agentId].conversationHistory[i].answer = InInfo
    /\ Len(agents[last.agentId].findings) = 4

\* the fixed table from strategy and score to agent types
TypeTable(strategy, ambiguityScore) ==
    IF strategy = "multi" \/ ambiguityScore > 70 THEN {"scope", "constraints", "outcomes"}
    ELSE IF strategy = "scope" THEN {"scope"}
    ELSE IF strategy = "constraints" THEN {"constraints"}
    ELSE IF strategy = "outcomes" THEN {"outcomes"}
    ELSE IF strategy = "emotions" THEN {"emotions", "outcomes"}
    ELSE {"scope", "outcomes"}

\* C22: the agents that spawnAgents returns are one per type of the fixed
\* table, no more and no fewer, and each of them is active with
\* questionsAsked 0, confidence 0, no findings and maxQuestions 2.
C22_SpawnTable ==
    (unit.op = "spawnAgents" /\ unit.phase = "returned") =>
        LET types == TypeTable(unit.strategy, unit.ambiguityScore) IN
        /\ Len(unit.result) = Cardinality(types)
        /\ { unit.result[i].type : i \in DOMAIN unit.result } = types
        /\ \A i \in DOMAIN unit.result :
              /\ unit.result[i].status = "active"
              /\ unit.result[i].questionsAsked = 0
              /\ unit.result[i].confidence = 0
              /\ unit.result[i].findings = <<>>
              /\ unit.result[i].maxQuestions = 2

\* spawnAgents has returned for the strategy 'emotions' with the score 70:
\* two agents, of the types emotions and outcomes
C22_Witness ==
    /\ unit.op = "spawnAgents" /\ unit.phase = "returned"
    /\ unit.strategy = "emotions" /\ unit.ambiguityScore = 70
    /\ Len(unit.result) = 2
    /\ unit.result[1].type = "emotions" /\ unit.result[2].type = "outcomes"

\* C23: generateNextQuestion never leaves an agent with an empty question,
\* whether the backend call succeeded (with any content, empty text included)
\* or failed; so every agent that spawnAgents returns has a non-empty
\* currentQuestion.
C23_QuestionNotEmpty ==
    (unit.op = "spawnAgents") =>
        /\ \A i \in DOMAIN unit.ids :
              i \notin unit.pending
                 => agents[unit.ids[i]].currentQuestion \notin {Undefined, ""}
        /\ \A i \in DOMAIN unit.result :
              unit.result[i].currentQuestion \notin {Undefined, ""}

\* C30: the first questions of a batch are generated concurrently and awaited
\* jointly: in whatever order the backend calls complete or fail, a settling
\* generation changes only the currentQuestion of its own agent, and when
\* spawnAgents returns every agent has its currentQuestion set, to what was
\* generated for that agent, with findings, status and counters as created.
C30_JointAwait ==
    [][ /\ ( unit.op = "spawnAgents" /\ unit.phase = "awaiting"
             /\ unit'.phase = "awaiting" )
           => \E i \in unit.pending :
                 /\ unit'.pending = unit.pending \ {i}
                 /\ \A id \in DOMAIN agents : id # unit.ids[i] => agents'[id] = agents[id]
                 /\ agents'[unit.ids[i]] =
                       [agents[unit.ids[i]] EXCEPT
                           !.currentQuestion = agents'[unit.ids[i]].currentQuestion]
        /\ ( unit'.op = "spawnAgents" /\ unit'.phase = "returned" )
           => /\ unit'.pending = {}
              /\ Len(unit'.result) = Len(unit'.ids)
              /\ \A i \in DOMAIN unit'.result :
                    LET created == createAgent(unit'.result[i].type) IN
                    /\ unit'.result[i] = agents'[unit'.ids[i]]
                    /\ unit'.result[i].currentQuestion # Undefined
                    /\ unit'.result[i] =
                          generateNextQuestion(created, unit'.userInput, unit'.outcomes[i])
      ]_vars

\* a batch of three has returned whose calls settled in the order third,
\* first, second and ended differently: each agent holds the question of its
\* own call
C30_Witness ==
    /\ unit.op = "spawnAgents" /\ unit.phase = "returned"
    /\ Len(unit.result) = 3
    /\ unit.order = <<3, 1, 2>>
    /\ unit.outcomes = <<"fail", "text", "fail">>
    /\ unit.result[1].currentQuestion = "What specific thing do you want to build or create?"
    /\ unit.result[2].currentQuestion = BackendQuestion
    /\ unit.result[3].currentQuestion = "What would success look like? How will you know it's working?"

\* C24: get returns the stored entry only while now - timestamp < ttl (both
\* in milliseconds): for an object read from the bucket the get goes on to
\* return it when now - timestamp < ttl, and returns null for every now with
\* now - timestamp >= ttl; a missing key yields null.
C24_ValidWhileYoung ==
    (unit.op = "cache" /\ unit.got.outcome \in {"reading", "miss"}) =>
        /\ ~IsSome(unit.got.found) => unit.got.outcome = "miss"
        /\ IsSome(unit.got.found) =>
              LET age == unit.got.now - Val(unit.got.found).timestamp
                  ttl == Val(unit.got.found).ttl * 1000
              IN  /\ age < ttl => unit.got.outcome = "reading"
                  /\ age >= ttl => unit.got.outcome = "miss"

\* C25: a successful get of a valid entry adds exactly one to the stored
\* hitCount and rewrites the entry with nothing else changed: whenever no get
\* is between its read and its write, the stored hitCount of an entry is the
\* number of successful gets since cacheResponse created it, whether the gets
\* ran one after the other or interleaved.
C25_HitsCounted ==
    (unit.op = "cache" /\ \A p \in CacheProcs : unit.procs[p].pc = "idle") =>
        \A k \in CacheKeys :
            IsSome(cache[k]) => Val(cache[k]).hitCount = unit.gets[k]

\* what C26 says of a state of retryWithBackoff
RetryAsStated ==
    (unit.op = "retryWithBackoff") =>
        LET config == unit.config
            n == Len(unit.fnCalls)
            failed == n - (IF unit.phase = "returned" THEN 1 ELSE 0)
        IN
        /\ n <= config.maxAttempts
        /\ \A k \in 1..failed : unit.fnCalls[k] # "ok"
        /\ \A k \in 1..(n - 1) : unit.fnCalls[k] \notin {"ok", "retryable false"}
        /\ unit.phase = "returned" => unit.fnCalls[n] = "ok"
        /\ (unit.phase = "threw" /\ config.maxAttempts >= 1)
              => /\ unit.thrown = Some(unit.fnCalls[n])
                 /\ unit.fnCalls[n] = "retryable false" \/ n = config.maxAttempts
        /\ Len(unit.waits) = (IF unit.phase \in {"returned", "threw"} THEN Max(0, n - 1) ELSE n)
        /\ \A k \in DOMAIN unit.waits :
              LET full == Min(config.initialDelay * Pow(config.backoffMultiplier, k - 1),
                              config.maxDelay)
              IN  /\ unit.waits[k].backoff = full
                  /\ 50 * full <= unit.waits[k].jittered
                  /\ unit.waits[k].jittered <= 100 * full

C27_ContinueKeepsState ==
    [][ ( /\ calls' = calls + 1
          /\ last'.op = "continueSession" /\ ~last'.delegated /\ ~last'.wantsToSkip
          /\ IsSome(sessions[last'.sid])
          /\ \E id \in Range(Val(sessions[last'.sid]).activeSubAgents) :
                id \in DOMAIN agents' /\ agents'[id].status = "active" )
        => LET before == Val(sessions[last'.sid])
               after == Val(sessions'[last'.sid])
               batch == Range(before.activeSubAgents)
               stillActive == { id \in batch : agents'[id].status = "active" }
               asked == last'.questions
           IN  /\ last'.outcome = "returned"
               /\ last'.needsClarification
               /\ Len(asked) = Cardinality(stillActive)
               /\ { asked[i].agentId : i \in DOMAIN asked } = stillActive
               /\ \A i \in DOMAIN asked :
                     /\ asked[i].type = agents'[asked[i].agentId].type
                     /\ asked[i].question \notin {Undefined, ""}
                     /\ agents'[asked[i].agentId].currentQuestion \in {asked[i].question, ""}
               /\ after = [before EXCEPT
                             !.iteration = @ + 1,
                             !.conversationHistory =
                                 @ \o << UserMsg(last'.input),
                                         AssistantMsg("next questions") >>]
               /\ store' = store /\ nextSnap' = nextSnap
               /\ DOMAIN agents' = DOMAIN agents
               /\ \A id \in DOMAIN agents : id \notin batch => agents'[id] = agents[id]
      ]_vars

\* of a batch of three, two agents were completed by the response and one is
\* still active: the call returned the question of that one agent
C27_Witness ==
    /\ WasContinue /\ Returned /\ ~last.wantsToSkip
    /\ Len(LastState.activeSubAgents) = 3
    /\ Len(last.questions) = 1
    /\ agents[last.questions[1].agentId].status = "active"
    /\ \E id \in Range(LastState.activeSubAgents) : agents[id].status = "completed"
    /\ last.needsClarification
    /\ LastState.status = "clarifying"

\* the replies of the engine in a session's history, oldest first
Replies(state) ==
    LET said == SelectSeq(state.conversationHistory, LAMBDA msg : msg.role = "assistant")
    IN  [ i \in 1..Len(said) |-> said[i].kind ]

\* C28: a clarification round takes at most maxQuestions continueSession
\* calls: counted from the call that spawned a batch, the second
\* continueSession call at the latest finds every agent of the batch
\* completed and runs the synthesis, so the engine never answers
\* maxQuestions times in a row with the next questions of the same batch.
C28_RoundBounded ==
    \A sid \in Sessions :
        IsSome(sessions[sid]) =>
            LET replies == Replies(Val(sessions[sid])) IN
            \A i \in 1..(Len(replies) - maxQuestions + 1) :
                \E k \in 0..(maxQuestions - 1) : replies[i + k] # "next questions"

\* C29: analyze returns even when the backend call never completes: the call
\* races a timer; when the timer settles first the heuristic analysis of the
\* input is returned, and a backend reply that arrives after that does not
\* change what was returned.
C29_ReturnsByTimeout ==
    /\ <>(unit.op = "analyze race" /\ unit.outcome = "returned")
    /\ []( (unit.op = "analyze race" /\ unit.first = "timer")
              => unit.analysis = Some(DefaultAnalysisOf(unit.userInput)) )
    /\ [][ (unit.op = "analyze race" /\ unit.outcome = "returned")
              => (unit'.outcome = "returned" /\ unit'.analysis = unit.analysis
                  /\ unit'.first = unit.first) ]_vars

\* the timer fired first on 'build something', the heuristic analysis (100,
\* 'multi') was returned, and a JSON reply with score 1 arrived afterwards
C29_Witness ==
    /\ unit.op = "analyze race" /\ unit.outcome = "returned"
    /\ unit.first = "timer" /\ unit.backend = "settled"
    /\ unit.userInput = InVague
    /\ unit.reply.kind = "json" /\ unit.reply.score = Some(1)
    /\ Val(unit.analysis).score = 100
    /\ Val(unit.analysis).recommendedStrategy = "multi"

\* C31: a continueSession call for a session that is not in memory while the
\* table holds snapshots of it continues that session: no new session is
\* started, the state is rebuilt from the stored snapshots (all of them kept,
\* the iteration their number plus the turn, the status 'ready' exactly when
\* the latest score is below 40), and the turn goes through the clarification
\* loop: it answers with questions, a progress report or the final goal.
C31_StoredSessionContinues ==
    (last.op = "continueSession" /\ last.loaded /\ last.storedBefore > 0) =>
        /\ ~last.delegated
        /\ Returned
        /\ IsSome(sessions[last.sid])
        /\ Len(LastState.intentSnapshots) >= last.storedBefore
        /\ \A i \in 1..last.storedBefore :
              LastState.intentSnapshots[i] = StoredIn(store, last.sid)[i]
        /\ LastState.iteration = last.storedBefore + 1
        /\ last.response \in {"next questions", "final", "proceeding",
                              "progress and clarification"}

\* C32: logging does not disturb its caller: a failed write ends the flush
\* without an exception, the buffer holds fewer than 10 entries whenever
\* control is back with a caller, every flush triggered by log hands over a
\* buffer of exactly 10 entries, and no entry is handed to the bucket twice,
\* however log calls and writes in flight interleave.
C32_LoggingIsQuiet ==
    (unit.op = "logger") =>
        /\ Len(unit.logBuffer) < 10
        /\ \A i \in DOMAIN unit.batches :
              /\ unit.batches[i].state \in {"sending", "written", "swallowed"}
              /\ unit.batches[i].caller = "log" => Len(unit.batches[i].logs) = 10
        /\ \A i, j \in DOMAIN unit.batches :
              i # j => Range(unit.batches[i].logs) \cap Range(unit.batches[j].logs) = {}
        /\ \A i \in DOMAIN unit.batches :
              Range(unit.batches[i].logs) \cap Range(unit.logBuffer) = {}
        /\ \A i \in DOMAIN unit.batches :
              Cardinality(Range(unit.batches[i].logs)) = Len(unit.batches[i].logs)

\* the tenth entry triggered a flush whose write failed while an eleventh
\* entry was logged: the failure was swallowed and the buffer holds one entry
C32_Witness ==
    /\ unit.op = "logger" /\ unit.logged = 11
    /\ Len(unit.batches) = 1
    /\ unit.batches[1].caller = "log" /\ unit.batches[1].state = "swallowed"
    /\ Len(unit.batches[1].logs) = 10
    /\ unit.logBuffer = <<11>>

\* C33: whenever startSession or continueSession returns, needsClarification
\* is true exactly when the status of the returned state is 'clarifying';
\* sessions rebuilt from the table and sessions without agents included.
C33_ClarifyingIffNeeded ==
    (last.op \in {"startSession", "continueSession"} /\ Returned) =>
        (last.needsClarification <=> LastState.status = "clarifying")

\* C34: a continueSession call whose response is no skip phrase leaves a
\* session 'ready' that was not 'ready' before only when every agent of its
\* batch has confidence 0.8 after two answered questions; and when such a
\* call completes active agents with a response that processResponse takes
\* for no-info ('I know React well' contains 'no'), it returns with the
\* session 'clarifying' and a batch of new agents.
C34_ReadyNeedsAnswers ==
    [][ ( /\ calls' = calls + 1
          /\ last'.op = "continueSession" /\ ~last'.wantsToSkip
          /\ last'.outcome = "returned" )
        => LET sid == last'.sid
               after == Val(sessions'[sid])
               batch == Range(after.activeSubAgents)
           IN  /\ ( after.status = "ready"
                    /\ (IsSome(sessions[sid]) => Val(sessions[sid]).status # "ready") )
                  => \A id \in batch : /\ agents'[id].confidence = 8
                                       /\ agents'[id].questionsAsked = 2
                                       /\ Len(agents'[id].conversationHistory) = 2
               /\ ( FactsOf(last'.input).noInfo /\ last'.allComplete
                    /\ last'.activeBefore # {} )
                  => /\ after.status = "clarifying"
                     /\ last'.needsClarification
                     /\ batch # {}
                     /\ \A id \in batch : /\ id \notin DOMAIN agents
                                          /\ agents'[id].status = "active"
                                          /\ agents'[id].questionsAsked = 0
      ]_vars

\* the second informative answer completed the batch with confidence 0.8 and
\* the new score was below 40: the session became 'ready' without a skip
C34_Witness ==
    /\ WasContinue /\ Returned /\ ~last.wantsToSkip /\ last.allComplete
    /\ last.activeBefore # {}
    /\ LastState.status = "ready"
    /\ LastState.activeSubAgents # <<>>
    /\ \A id \in Range(LastState.activeSubAgents) : agents[id].confidence = 8
    /\ last.newScore = 39

\* C35: in every state an agent's confidence is 0, 0.4 or 0.8 (so the test
\* 'confidence > 0.8' fails: the double reached by adding 0.4 twice is the
\* double 0.8), an agent goes from 'active' to 'completed' only on its last
\* question, on a no-info response or on a skip, and the confidence that a
\* call synthesized, the double that the reduce and the division over the
\* batch yield, is a number from 0 to 0.8.
C35_AgentLevels ==
    \A id \in DOMAIN agents :
        /\ agents[id].confidence \in {0, 4, 8}
        /\ ~Greater64(Confidence64(agents[id].confidence), Double08)

C35_CompletedFor ==
    \A id \in DOMAIN agents \cap DOMAIN agents' :
        ( agents[id].status = "active" /\ agents'[id].status = "completed" )
        => \/ agents'[id].questionsAsked = agents'[id].maxQuestions
           \/ FactsOf(last'.input).noInfo
           \/ last'.wantsToSkip

C35_MeanInRange ==
    ( WasContinue /\ last.allComplete )
    => /\ last.confidence.value # NaN
       /\ ~Greater64(last.confidence.value, Double08)

C35_ConfidenceLevels ==
    /\ [](C35_AgentLevels /\ C35_MeanInRange)
    /\ [][C35_CompletedFor]_vars

\* C36: after a continueSession call on a session whose batch agents all
\* have a non-empty pending question, the agents of that batch, and those of
\* the batch the session has after the call, agree on status, questionsAsked
\* and confidence.
InStep(reg, ids) ==
    \A i, j \in ids : /\ reg[i].status = reg[j].status
                      /\ reg[i].questionsAsked = reg[j].questionsAsked
                      /\ reg[i].confidence = reg[j].confidence

C36_Lockstep ==
    [][ ( /\ calls' = calls + 1
          /\ last'.op = "continueSession" /\ last'.hadAgents
          /\ IsSome(sessions[last'.sid])
          /\ \A id \in Range(Val(sessions[last'.sid]).activeSubAgents) :
                 id \in DOMAIN agents /\ acceptsResponse(agents[id]) )
        => /\ InStep(agents', Range(Val(sessions[last'.sid]).activeSubAgents))
           /\ InStep(agents', Range(Val(sessions'[last'.sid]).activeSubAgents))
      ]_vars

\* C37: a startSession or continueSession call on one session id leaves the
\* other session as it was: its state in the session map (status, iteration,
\* scores, agent ids, conversation history, snapshots), its agents in the
\* registry with their findings and confidence, and its snapshots in the table.
C37_Isolated ==
    [][ ( calls' = calls + 1 /\ last'.op \in {"startSession", "continueSession"} )
        => \A other \in TwoSessions \ {last'.sid} :
              /\ sessions'[other] = sessions[other]
              /\ StoredOf(other)' = StoredOf(other)
              /\ IsSome(sessions[other])
                 => \A id \in Range(Val(sessions[other]).activeSubAgents) :
                       id \in DOMAIN agents' /\ agents'[id] = agents[id]
      ]_vars

\* session s1 completed its batch and wrote a snapshot while session s2 was
\* waiting with active agents of its own
C37_Witness ==
    /\ WasContinue /\ Returned /\ last.sid = "s1" /\ last.allComplete
    /\ IsSome(sessions["s2"])
    /\ Val(sessions["s2"]).status = "clarifying"
    /\ \E id \in Range(Val(sessions["s2"]).activeSubAgents) :
          agents[id].status = "active" /\ agents[id].currentQuestion # EmptyText
    /\ StoredOf("s1") # <<>> /\ StoredOf("s2") # <<>>

\* C38: while two continueSession calls of one session interleave at their
\* awaits, no batch is behind two snapshots, each snapshot was made against
\* the one that precedes it in state.intentSnapshots, and no agent has been
\* asked more than maxQuestions questions.
C38_InterleavingConsistent ==
    unit.op = "continueSession twice"
    => LET snaps == unit.state.intentSnapshots IN
       /\ \A i, j \in 2..Len(snaps) : snaps[i].batch = snaps[j].batch => i = j
       /\ \A i \in 2..Len(snaps) : snaps[i].previous = snaps[i - 1].snapshotId
       /\ \A id \in DOMAIN unit.registry :
              unit.registry[id].questionsAsked <= unit.registry[id].maxQuestions

\* C39: a 'generate' or 'execute' request generates or executes an agent
\* only for a session whose status is 'ready'; for a session in another
\* status and for an unknown session it does neither and answers 400 or 404.
C39_OnlyWhenReady ==
    unit.op = "handler"
    => /\ (unit.generated \/ unit.executed) => unit.status = Some("ready")
       /\ unit.status # Some("ready")
          => /\ ~unit.generated /\ ~unit.executed
             /\ unit.statusCode \in {400, 404}

\* C40: when handle is called with tier 1 failing or skipped, the bucket
\* readable and an unexpired entry stored under the request's key, it returns
\* strategy 'cache' with that entry's response, whether or not the write of
\* the incremented hit count succeeds; the key is the one under which the
\* intent classifier stores its response for the same type and input.
C40_CacheTierAnswers ==
    [][ \A type \in RequestTypes, input \in FbInputs, attempted \in AttemptedLists,
           env \in CascadeEnvs :
          LET request == [ originalRequest |-> [ type |-> type, input |-> input ],
                           attemptedBackends |-> attempted ]
              cacheKey == generateCacheKey(request.originalRequest)
          IN  ( /\ Handle(request, env)
                /\ env.getOk
                /\ ~alternativeLeft(attempted) \/ env.alt # "ok"
                /\ IsSome(cache[cacheKey])
                /\ ~expired(Val(cache[cacheKey]), Now) )
              => /\ fb'.h.strategy = "cache"
                 /\ fb'.response = Some(Val(cache[cacheKey]).response)
                 /\ type = "intent"
                    => cacheKey = generateCacheKey(ClassifierRequest(input))
      ]_vars

=============================================================================
